---- MODULE Spec2Model ----
(***************************************************************************)
(* Model of translate/models.py: the masking utility get_weights, the      *)
(* attention variants, the attention decoder (its unrolled loop _time_step *)
(* and its single-step function get_logits), the encoder multi_encoder,    *)
(* the creation of parameters under variable reuse, the two-stage         *)
(* pipeline chained_encoder_decoder with sequence_loss, and the            *)
(* cross-entropy loss of encoder_decoder.                                  *)
(*                                                                         *)
(* Tensors are modelled for one batch row (every reduction in the source   *)
(* runs along the time or the feature axis, rows never interact).  A float *)
(* that results from a division is the pair <<numerator, denominator>>;    *)
(* a denominator of 0 is what the division produces in IEEE arithmetic     *)
(* (NaN for 0/0, infinity otherwise).  Indices are 0-based in the source   *)
(* and 1-based in the sequences here; the alignment position pos and the   *)
(* loop counter time keep the source's 0-based values.                     *)
(***************************************************************************)
EXTENDS Integers, Sequences, FiniteSets, TLC

VARIABLES
    \* ---- get_weights call
    gw_sequence,          \* the row of token ids passed as `sequence`
    gw_include,           \* the include_first_eos argument
    gw_weights,           \* the returned mask (<<>> before the call)
    gw_done,              \* the call has returned
    \* ---- one call of attention(encoder, ...)
    att_encoder,          \* encoder configuration record
    att_hidden,           \* hidden_states of the row (one feature per position)
    att_length,           \* encoder_input_length of the row
    att_pos,              \* pos argument (None when absent)
    att_scores,           \* outputs of the learned scoring networks
    att_out,              \* returned (weighted_average, weights)
    att_done,
    \* ---- arguments of attention_decoder (fixed after construction)
    cfg_decoder,              \* decoder configuration record
    cfg_encoders,             \* encoder configuration records
    cfg_attention_states,     \* hidden states, one sequence per encoder
    cfg_encoder_input_length, \* valid length, one per encoder
    cfg_align_encoder_id,     \* 0-based
    decoder_inputs,       \* the row of ground-truth input ids, BOS first
    feed_previous,        \* in units of 1/2
    feed_argmax,
    initial_data,         \* the initial packed state returned to the caller
    \* ---- tf.while_loop over _time_step
    pc,                   \* "loop", "done", "failed", "idle"
    loop_time, loop_input, loop_input_symbol, loop_pos, loop_state, loop_prev_weights,
    ta_outputs, ta_samples, ta_states, ta_weights, ta_attns,     \* the TensorArrays
    inputs_read,          \* indices of `inputs` read so far
    draw,                 \* the uniform draw of the last step, in units of 1/2
    branch,               \* the branch of tf.case the last step took
    carried,              \* the (state, pos) each step so far handed to the next iteration
    ops,                  \* the state-changing calls of the last step, in order
    \* ---- calls of get_logits by the caller
    beam_data,            \* packed state held by the caller
    beam_logits,          \* logits of the last call
    beam_calls,           \* number of calls so far
    beam_greedy,          \* every call so far was fed the first input id / the previous argmax
    beam_parts,           \* what the last call packed
    beam_ops              \* the state-changing calls of the last call, in order

gw_vars == <<gw_sequence, gw_include, gw_weights, gw_done>>
att_vars == <<att_encoder, att_hidden, att_length, att_pos, att_scores, att_out, att_done>>
cfg_vars == <<cfg_decoder, cfg_encoders, cfg_attention_states, cfg_encoder_input_length, cfg_align_encoder_id,
              decoder_inputs, feed_previous, feed_argmax, initial_data>>
loop_vars == <<pc, loop_time, loop_input, loop_input_symbol, loop_pos, loop_state, loop_prev_weights,
               ta_outputs, ta_samples, ta_states, ta_weights, ta_attns, inputs_read, draw, branch, carried, ops>>
beam_vars == <<beam_data, beam_logits, beam_calls, beam_greedy, beam_parts, beam_ops>>

-----------------------------------------------------------------------------
(* Bounds of the model *)

MaxLen == 3        \* longest row passed to get_weights
MaxSteps == 3      \* largest time length of decoder_inputs
MaxAttnLen == 3    \* largest time dimension of the hidden states of a single attention call
MaxEncLen == 2     \* largest time dimension of an encoder of the decoder
ExpRange == 3      \* exp(x) underflows to 0 for x < -ExpRange (binary exponent range of the float format)

(* Token ids of translate.utils *)
BOS_ID == 0
EOS_ID == 1
UNK_ID == 2
KEEP_ID == 3
DEL_ID == 4

VocabSize == 5     \* decoder.vocab_size
Vocab == 0..(VocabSize - 1)

\* an absent optional argument; a present one is the one-element tuple <<x>>
None == << >>
Some(x) == <<x>>

-----------------------------------------------------------------------------
(* Tensor helpers *)

\* a sequence with its elements computed
Tensor(f) == f \o << >>

RECURSIVE reduce_sum(_)
reduce_sum(s) == IF Len(s) = 0 THEN 0 ELSE s[1] + reduce_sum(Tail(s))

RECURSIVE reduce_max(_)
reduce_max(s) ==
    IF Len(s) = 1 THEN s[1]
    ELSE LET m == reduce_max(Tail(s)) IN IF s[1] >= m THEN s[1] ELSE m

Minimum(a, b) == IF a <= b THEN a ELSE b
Maximum(a, b) == IF a >= b THEN a ELSE b

\* tf.cumsum along the time axis
cumsum(s) == Tensor([t \in 1..Len(s) |-> reduce_sum(SubSeq(s, 1, t))])

\* tf.sequence_mask(lengths, maxlen): 1 at the 0-based indices below `length`
sequence_mask(length, maxlen) == Tensor([i \in 1..maxlen |-> IF i - 1 < length THEN 1 ELSE 0])

\* tf.one_hot(index, depth): all zeros when the index is outside 0..depth-1
one_hot(index, depth) == Tensor([i \in 1..depth |-> IF i - 1 = index THEN 1 ELSE 0])

\* tf.exp in the float format: 2^x scaled by 2^ExpRange, 0 below the exponent range
RECURSIVE Pow2(_)
Pow2(n) == IF n <= 0 THEN 1 ELSE 2 * Pow2(n - 1)

exp(x) == IF x < -ExpRange THEN 0 ELSE Pow2(x + ExpRange)

-----------------------------------------------------------------------------
(* get_weights, models.py 964-975 *)

\* tf.not_equal(sequence, eos_id) as floats
NotEqualEos_IgnoresEos(sequence, eos_id) == Tensor([t \in 1..Len(sequence) |-> 1])
NotEqualEos(sequence, eos_id) == Tensor([t \in 1..Len(sequence) |-> IF sequence[t] # eos_id THEN 1 ELSE 0])

\* weights[:, :-1] preceded by a column of ones
IncludeFirstEos_Unshifted(weights) == <<1>> \o Tail(weights)
IncludeFirstEos(weights) == <<1>> \o SubSeq(weights, 1, Len(weights) - 1)

get_weights(sequence, eos_id, include_first_eos) ==
    LET cumsum_ == cumsum(NotEqualEos(sequence, eos_id))
        range_ == Tensor([t \in 1..Len(sequence) |-> t])
        weights == Tensor([t \in 1..Len(sequence) |-> IF cumsum_[t] = range_[t] THEN 1 ELSE 0])
    IN  IF include_first_eos THEN IncludeFirstEos(weights) ELSE weights

-----------------------------------------------------------------------------
(* Specification of one get_weights call *)

Rows == UNION {[1..n -> Vocab] : n \in 1..MaxLen}

GwInit ==
    /\ gw_sequence \in Rows
    /\ gw_include \in BOOLEAN
    /\ gw_weights = <<>>
    /\ gw_done = FALSE

CallGetWeights ==
    /\ ~gw_done
    /\ gw_weights' = get_weights(gw_sequence, EOS_ID, gw_include)
    /\ gw_done' = TRUE
    /\ UNCHANGED <<gw_sequence, gw_include>>

-----------------------------------------------------------------------------
(* Attention variants, models.py 316-452.                                  *)
(* `scores` holds what the learned sub-networks return for the call:       *)
(* scores.e, the energies of compute_energy (already multiplied by the     *)
(* temperature), and scores.sigmoid, the output of the position network    *)
(* of local attention in units of 1/SigmoidDen.                            *)

SigmoidDen == 2
MaxEnergy == ExpRange + 1
Energies == 0..MaxEnergy

\* x / y of two floats given as integers
truediv(x, y) == <<x, y>>

\* reduce_sum(expand_dims(weights, 2) * hidden_states, axis=1) for weights n_i / den
WeightedAverage(nums, den, hidden_states) ==
    << truediv(reduce_sum(Tensor([i \in 1..Len(hidden_states) |-> nums[i] * hidden_states[i]])), den) >>

\* a learned projection onto one feature (a fixed linear map)
dense(xs) == << truediv(reduce_sum(Tensor([i \in 1..Len(xs) |-> (i + 1) * xs[i]])), 1) >>

global_attention(hidden_states, encoder, encoder_input_length, scores) ==
    LET maxlen == Len(hidden_states)
        row_max == reduce_max(scores.e)
        e == Tensor([i \in 1..maxlen |-> scores.e[i] - row_max])
        mask == sequence_mask(encoder_input_length, maxlen)
        exp_ == Tensor([i \in 1..maxlen |-> exp(e[i]) * mask[i]])
        total == reduce_sum(exp_)
        weights == Tensor([i \in 1..maxlen |-> truediv(exp_[i], total)])
    IN  [weighted_average |-> WeightedAverage(exp_, total, hidden_states),
         weights |-> weights]

no_attention(hidden_states) ==
    [weighted_average |-> << >>,
     weights |-> Tensor([i \in 1..Len(hidden_states) |-> truediv(0, 1)])]

average_attention_OverTime(hidden_states, encoder_input_length) ==
    LET lengths == Len(hidden_states)
        mask == sequence_mask(encoder_input_length, Len(hidden_states))
    IN  [weighted_average |-> WeightedAverage(mask, lengths, hidden_states),
         weights |-> Tensor([i \in 1..Len(hidden_states) |-> truediv(mask[i], lengths)])]
average_attention(hidden_states, encoder_input_length) ==
    LET lengths == encoder_input_length
        mask == sequence_mask(encoder_input_length, Len(hidden_states))
    IN  [weighted_average |-> WeightedAverage(mask, lengths, hidden_states),
         weights |-> Tensor([i \in 1..Len(hidden_states) |-> truediv(mask[i], lengths)])]

last_state_attention_AtLength(hidden_states, encoder_input_length) ==
    LET weights == one_hot(encoder_input_length, Len(hidden_states))
    IN  [weighted_average |-> WeightedAverage(weights, 1, hidden_states),
         weights |-> Tensor([i \in 1..Len(hidden_states) |-> truediv(weights[i], 1)])]
last_state_attention(hidden_states, encoder_input_length) ==
    LET weights == one_hot(encoder_input_length - 1, Len(hidden_states))
    IN  [weighted_average |-> WeightedAverage(weights, 1, hidden_states),
         weights |-> Tensor([i \in 1..Len(hidden_states) |-> truediv(weights[i], 1)])]

\* softmax(logits, mask=mask), models.py 928-933: the clip leaves every sum
\* but 0 unchanged (the smallest positive value of exp is 1 in these units)
clip_by_value(x, lo) == IF x < lo THEN lo ELSE x

softmax(logits, mask) ==
    LET e == Tensor([i \in 1..Len(logits) |-> exp(logits[i]) * mask[i]])
        total == clip_by_value(reduce_sum(e), 1)
    IN  Tensor([i \in 1..Len(logits) |-> truediv(e[i], total)])

\* tf.minimum(pos, encoder_input_length - 1)
ClampPos_Unclamped(pos, encoder_input_length) == pos
ClampPos(pos, encoder_input_length) == Minimum(pos, encoder_input_length - 1)

\* exp(-(idx - pos)^2 / (2 * sigma^2)) with sigma = attn_window_size / 2, as
\* <<numerator, denominator>>; sigma = 0 divides by 0: NaN at idx = pos,
\* exp(-infinity) = 0 elsewhere
TruncatedNormal(idx, pos, attn_window_size) ==
    LET d2 == (idx - pos) * (idx - pos)
        w2 == attn_window_size * attn_window_size
    IN  IF w2 = 0
        THEN (IF d2 = 0 THEN <<0, 0>> ELSE <<0, 1>>)
        ELSE <<exp(-((2 * d2 + w2 - 1) \div w2)), Pow2(ExpRange)>>

\* pos_ = pos + offset; tf.minimum(pos_, encoder_input_length - 1); tf.maximum(pos_, 0)
WindowPos_NoUpperClamp(pos, offset, encoder_input_length) == Maximum(pos + offset, 0)
WindowPos(pos, offset, encoder_input_length) ==
    Maximum(Minimum(pos + offset, encoder_input_length - 1), 0)

local_attention(hidden_states, encoder, encoder_input_length, pos, scores) ==
    LET attn_length == Len(hidden_states)
        pos_c == ClampPos(pos[1], encoder_input_length)
    IN  IF pos # None /\ encoder.attn_window_size > 0 THEN
            LET weights == one_hot(pos_c, attn_length)
                window == Tensor([k \in 1..(2 * encoder.attn_window_size + 1) |->
                    LET offset == k - 1 - encoder.attn_window_size
                        pos_ == WindowPos(pos_c, offset, encoder_input_length)
                    IN  reduce_sum(Tensor([i \in 1..attn_length |-> one_hot(pos_, attn_length)[i] * hidden_states[i]]))])
            IN  [weighted_average |-> dense(window),
                 weights |-> Tensor([i \in 1..attn_length |-> truediv(weights[i], 1)]),
                 window_pos |-> Tensor([k \in 1..(2 * encoder.attn_window_size + 1) |->
                    WindowPos(pos_c, k - 1 - encoder.attn_window_size, encoder_input_length)])]
        ELSE IF pos # None THEN
            LET weights == one_hot(pos_c, attn_length)
            IN  [weighted_average |-> WeightedAverage(weights, 1, hidden_states),
                 weights |-> Tensor([i \in 1..attn_length |-> truediv(weights[i], 1)])]
        ELSE
            LET p == ClampPos((encoder_input_length * scores.sigmoid) \div SigmoidDen,
                              encoder_input_length)
                low == p - encoder.attn_window_size
                high == p + encoder.attn_window_size
                m == Tensor([i \in 1..attn_length |->
                        (IF i - 1 < low THEN 1 ELSE 0) + (IF i - 1 > high THEN 1 ELSE 0)
                        + (IF i - 1 >= encoder_input_length THEN 1 ELSE 0)])
                mask == Tensor([i \in 1..attn_length |-> IF m[i] = 0 THEN 1 ELSE 0])
                sm == softmax(scores.e, mask)
                g == Tensor([i \in 1..attn_length |-> TruncatedNormal(i - 1, p, encoder.attn_window_size)])
                nums == Tensor([i \in 1..attn_length |-> sm[i][1] * g[i][1]])
                weights == Tensor([i \in 1..attn_length |-> truediv(sm[i][1] * g[i][1], sm[i][2] * g[i][2])])
            IN  [weighted_average |->
                    << truediv(reduce_sum(Tensor([i \in 1..attn_length |-> nums[i] * hidden_states[i]])),
                               IF \E i \in 1..attn_length : weights[i][2] = 0 THEN 0
                               ELSE sm[1][2] * Pow2(ExpRange)) >>,
                 weights |-> weights]

AttentionTypes == {"global", "local", "none", "average", "last_state"}

attention(encoder, hidden_states, encoder_input_length, pos, scores) ==
    CASE encoder.attention_type = "local" ->
            local_attention(hidden_states, encoder, encoder_input_length, pos, scores)
      [] encoder.attention_type = "none" -> no_attention(hidden_states)
      [] encoder.attention_type = "average" -> average_attention(hidden_states, encoder_input_length)
      [] encoder.attention_type = "last_state" -> last_state_attention(hidden_states, encoder_input_length)
      [] OTHER -> global_attention(hidden_states, encoder, encoder_input_length, scores)

\* encoder outputs: zero at and beyond the valid length (models.py 181-182)
HiddenStates(maxlen, length) == Tensor([i \in 1..maxlen |-> IF i <= length THEN i ELSE 0])

\* the same with other values at the valid positions
HiddenStateRows(maxlen, length) ==
    {Tensor([i \in 1..maxlen |-> k * HiddenStates(maxlen, length)[i]]) : k \in {1, -2}}

NoScores == [e |-> << >>, sigmoid |-> 0]

Encoder(type, window) == [attention_type |-> type, attn_window_size |-> window]

WindowSizes == {0, 1}

-----------------------------------------------------------------------------
(* attention_decoder, models.py 482-777.                                   *)
(* A feature vector is a sequence of floats <<n, d>>; the recurrent state   *)
(* is a sequence of integers of width state_size.  The learned maps (the    *)
(* embedding table, the recurrent cell, the scoring networks, the output    *)
(* projection) are fixed functions of their inputs.                         *)

\* tf.nn.embedding_lookup(embedding, input_) (dropout off)
embed(input_) == << truediv(2 * input_ + 1, 1) >>

\* a number that identifies a feature vector / an integer vector
FeatureCode(x) == reduce_sum(Tensor([k \in 1..Len(x) |-> k * (x[k][1] + 2 * x[k][2])]))
VectorCode(x) == reduce_sum(Tensor([k \in 1..Len(x) |-> k * x[k]]))

\* state[:, -cell_output_size:]
OutputSlice(state, cell_output_size) == SubSeq(state, Len(state) - cell_output_size + 1, Len(state))

\* state_size and cell_output_size, models.py 644-645
StateSize(decoder) == (IF decoder.use_lstm THEN decoder.cell_size * 2 ELSE decoder.cell_size) * decoder.layers
CellOutputSize(decoder) == decoder.cell_size

\* get_cell(input_size)(input_, state): the new state of the recurrent cell
cell(input_, state) == Tensor([j \in 1..Len(state) |-> 2 * state[j] + FeatureCode(input_) + j])

\* what compute_energy and the position network return for a query state
\* and the hidden states of one encoder
Scores(query, hidden_states) ==
    [e |-> Tensor([i \in 1..Len(hidden_states) |-> (2 * hidden_states[i] + query) % (MaxEnergy + 1)]),
     sigmoid |-> query % (SigmoidDen + 1)]

\* tf.concat of two feature vectors along the feature axis
concat(a, b) == a \o b

\* sum of two floats
AddFloat(a, b) == truediv(a[1] * b[2] + b[1] * a[2], a[2] * b[2])

\* tf.reduce_sum(tf.stack(attns, axis=2), axis=2)
RECURSIVE SumContexts(_)
SumContexts(attns) ==
    IF Len(attns) = 1 THEN attns[1]
    ELSE LET rest == SumContexts(Tail(attns))
         IN  Tensor([k \in 1..Len(attns[1]) |-> AddFloat(attns[1][k], rest[k])])

RECURSIVE ConcatContexts(_)
ConcatContexts(attns) == IF Len(attns) = 0 THEN << >> ELSE attns[1] \o ConcatContexts(Tail(attns))

\* beam_search.resize_like(x, like): x tiled to the batch/beam size of `like`,
\* which is x itself for one row
resize_like(x, like) == x

multi_attention(state, hidden_states, encoders, encoder_input_length, pos, aggregation_method) ==
    LET query == FeatureCode(state)
        per_encoder == Tensor([i \in 1..Len(encoders) |->
            attention(encoders[i], resize_like(hidden_states[i], state),
                      resize_like(encoder_input_length[i], state),
                      IF pos # None THEN pos[1][i] ELSE None,
                      Scores(query, hidden_states[i]))])
        attns == Tensor([i \in 1..Len(encoders) |-> per_encoder[i].weighted_average])
        weights == Tensor([i \in 1..Len(encoders) |-> per_encoder[i].weights])
    IN  [context |-> IF aggregation_method = "sum" THEN SumContexts(attns) ELSE ConcatContexts(attns),
         weights |-> weights]

\* look, models.py 555-568 (align_encoder_id is 0-based)
look(decoder, encoders, attention_states, encoder_input_length, align_encoder_id, state, input_, pos) ==
    LET state_ == IF ~decoder.attn_use_lstm_state
                  THEN OutputSlice(state, CellOutputSize(decoder)) ELSE state
        pos_ == IF decoder.pred_edits
                THEN Some(Tensor([i \in 1..Len(encoders) |-> IF i - 1 = align_encoder_id THEN Some(pos) ELSE None]))
                ELSE None
        query == Tensor([k \in 1..Len(state_) |-> truediv(state_[k], 1)])
        query_ == IF decoder.attn_prev_word THEN concat(query, input_) ELSE query
        r == multi_attention(query_, attention_states, encoders, encoder_input_length, pos_,
                             decoder.aggregation_method)
    IN  [context |-> r.context, new_weights |-> r.weights[align_encoder_id + 1], pos_arg |-> pos_]

\* update, models.py 570-585 (context and symbol are optional)
update(decoder, state, input_, context, symbol) ==
    LET input__ == IF context # None /\ decoder.rnn_feed_attn THEN concat(input_, context[1]) ELSE input_
        new_state == cell(input__, state)
    IN  IF decoder.skip_update /\ decoder.pred_edits /\ symbol # None
        THEN (IF symbol[1] = DEL_ID THEN state ELSE new_state)
        ELSE new_state

\* is_not_ins, models.py 591-593
IsNotIns_KeepOnly(symbol) == symbol = KEEP_ID
IsNotIns(symbol) == symbol = KEEP_ID \/ symbol = DEL_ID

\* update_pos, models.py 587-601
update_pos_Unclamped(decoder, pos, symbol, max_pos) ==
    IF ~decoder.pred_edits THEN pos
    ELSE resize_like(pos, symbol) + (IF IsNotIns(symbol) THEN 1 ELSE 0)
update_pos(decoder, pos, symbol, max_pos) ==
    IF ~decoder.pred_edits THEN pos
    ELSE LET pos_ == resize_like(pos, symbol) + (IF IsNotIns(symbol) THEN 1 ELSE 0)
         IN  IF max_pos # None THEN Minimum(pos_, resize_like(max_pos[1], symbol)) ELSE pos_

\* generate, models.py 603-640: the logits, one per vocabulary id
generate(decoder, state, input_, context) ==
    LET state_ == IF ~decoder.pred_use_lstm_state
                  THEN OutputSlice(state, CellOutputSize(decoder)) ELSE state
        c == VectorCode(state_) + (IF decoder.use_previous_word THEN 3 * FeatureCode(input_) ELSE 0)
             + 5 * FeatureCode(context)
    IN  Tensor([v \in 1..VocabSize |-> ((v + 1) * (c + 1) + (c \div 3)) % (VocabSize + 2)])

\* tf.argmax(logits, 1): the first id with the largest logit
argmax(logits) ==
    (CHOOSE v \in 1..Len(logits) :
        /\ \A w \in 1..Len(logits) : logits[w] <= logits[v]
        /\ \A w \in 1..(v - 1) : logits[w] < logits[v]) - 1

\* initial_data, models.py 675, and the split of models.py 679
Pack(state, pos, weights) ==
    Tensor([k \in 1..Len(state) |-> truediv(state[k], 1)]) \o <<truediv(pos, 1)>> \o weights

Split(data, state_size) ==
    [state |-> Tensor([k \in 1..state_size |-> data[k][1]]),
     pos |-> data[state_size + 1][1],
     prev_weights |-> SubSeq(data, state_size + 2, Len(data))]

-----------------------------------------------------------------------------
(* Specification of one attention call *)

AttInit ==
    /\ \E maxlen \in 1..MaxAttnLen : \E length \in 0..maxlen :
          /\ att_length = length
          /\ \/ /\ att_encoder \in {Encoder(t, 0) : t \in {"none", "average", "last_state"}}
                /\ att_hidden \in HiddenStateRows(maxlen, length)
                /\ att_pos = None
                /\ att_scores = NoScores
             \/ /\ att_encoder = Encoder("global", 0)
                /\ att_hidden = HiddenStates(maxlen, length)
                /\ att_pos = None
                /\ att_scores \in [e : [1..maxlen -> Energies], sigmoid : {0}]
             \/ /\ att_encoder \in {Encoder("local", w) : w \in WindowSizes}
                /\ att_hidden \in HiddenStateRows(maxlen, length)
                /\ att_pos \in {Some(p) : p \in 0..maxlen}
                /\ att_scores = NoScores
             \/ /\ att_encoder \in {Encoder("local", w) : w \in WindowSizes}
                /\ att_hidden = HiddenStates(maxlen, length)
                /\ att_pos = None
                /\ att_scores \in [e : [1..maxlen -> Energies], sigmoid : 0..SigmoidDen]
    /\ att_out = None
    /\ att_done = FALSE

CallAttention ==
    /\ ~att_done
    /\ att_out' = attention(att_encoder, att_hidden, att_length, att_pos, att_scores)
    /\ att_done' = TRUE
    /\ UNCHANGED <<att_encoder, att_hidden, att_length, att_pos, att_scores>>

-----------------------------------------------------------------------------
(* The unrolled loop, models.py 647-675 and 709-762 *)

\* tf.TensorArray(size=time_steps): the values, and how often each index was
\* written; `stray` counts the writes outside 0..size-1
TensorArray(size) == [vals |-> Tensor([i \in 1..size |-> None]), writes |-> Tensor([i \in 1..size |-> 0]), stray |-> 0]

write(ta, index, value) ==
    IF index + 1 \in 1..Len(ta.vals)
    THEN [ta EXCEPT !.vals[index + 1] = Some(value), !.writes[index + 1] = @ + 1]
    ELSE [ta EXCEPT !.stray = @ + 1]

\* cond of tf.while_loop, models.py 757
LoopCond_Inclusive(time_, time_steps) == time_ <= time_steps
LoopCond(time_, time_steps) == time_ < time_steps

\* use_target, models.py 731
UseTarget_NoLastStepGuard(time_, time_steps, u, feed_previous_) == u >= feed_previous_
UseTarget(time_, time_steps, u, feed_previous_) == time_ < time_steps - 1 /\ u >= feed_previous_

\* tf.case([(use_target, target), (not feed_argmax, softmax)], default=argmax):
\* the first pair whose predicate holds
Case(use_target, feed_argmax_) ==
    IF use_target THEN "target" ELSE IF ~feed_argmax_ THEN "softmax" ELSE "argmax"

StepUpdateBeforeLook(dec) ==
    IF dec.conditional_rnn THEN "conditional_1"
    ELSE IF dec.update_first THEN "update_first" ELSE "no"

StepUpdateAfterLook_OnceOnly(dec) ==
    IF dec.conditional_rnn THEN "conditional_2"
    ELSE IF ~dec.generate_first /\ ~dec.update_first THEN "update" ELSE "no"
StepUpdateAfterLook(dec) ==
    IF dec.conditional_rnn THEN "conditional_2"
    ELSE IF ~dec.generate_first THEN "update" ELSE "no"

StepUpdateAfterSymbol(dec) == ~dec.conditional_rnn /\ ~dec.update_first /\ dec.generate_first

\* the embedding the deferred update of _time_step is fed, models.py 741 and 750
StepDeferredInput_Stale(old_input, predicted_symbol) == old_input
StepDeferredInput(old_input, predicted_symbol) == embed(predicted_symbol)

\* initial_state, models.py 666-673: the projection of the encoders' final state
InitialState(dec, encoder_state) ==
    Tensor([j \in 1..StateSize(dec) |-> 2 * VectorCode(encoder_state) + j])

\* initial_weights, models.py 661
InitialWeights_FirstEncoder(attention_states_, align_encoder_id_) ==
    Tensor([i \in 1..Len(attention_states_[1]) |-> truediv(0, 1)])
InitialWeights(attention_states_, align_encoder_id_) ==
    Tensor([i \in 1..Len(attention_states_[align_encoder_id_ + 1]) |-> truediv(0, 1)])

\* the updates of _time_step before and after look, models.py 710-722
StepBeforeLook(dec, state, input_, input_symbol) ==
    IF StepUpdateBeforeLook(dec) = "no" THEN state
    ELSE update(dec, state, input_, None,
                IF StepUpdateBeforeLook(dec) = "conditional_1" THEN None ELSE Some(input_symbol))

StepAfterLook(dec, state, input_, input_symbol, context) ==
    IF StepUpdateAfterLook(dec) = "no" THEN state
    ELSE IF StepUpdateAfterLook(dec) = "conditional_2" THEN update(dec, state, context, None, None)
    ELSE update(dec, state, input_, Some(context), Some(input_symbol))

\* the state-changing calls of one pass, in order
StepOps(dec) ==
    (IF StepUpdateBeforeLook(dec) = "no" THEN << >> ELSE <<StepUpdateBeforeLook(dec)>>) \o <<"look">>
    \o (IF StepUpdateAfterLook(dec) = "no" THEN << >> ELSE <<StepUpdateAfterLook(dec)>>)
    \o <<"generate", "symbol">>
    \o (IF StepUpdateAfterSymbol(dec) THEN <<"update_symbol">> ELSE << >>)

\* what tf.multinomial can return when the softmax branch runs (any id of the
\* vocabulary); it is not run when another branch is taken
Samples(time_, u) ==
    IF Case(UseTarget(time_, Len(decoder_inputs), u, feed_previous), feed_argmax) = "softmax"
    THEN Vocab ELSE {0}

\* body of the loop: one pass through _time_step with the draw u and, when the
\* softmax branch runs, the sampled id `sample`; a read of `inputs` outside
\* 0..time_steps-1 fails the run
TimeStep ==
    /\ pc = "loop"
    /\ LoopCond(loop_time, Len(decoder_inputs))
    /\ \E u \in {0, 1} : \E sample \in Samples(loop_time, u) :
       \E state1 \in {StepBeforeLook(cfg_decoder, loop_state, loop_input, loop_input_symbol)} :
       \E lk \in {look(cfg_decoder, cfg_encoders, cfg_attention_states, cfg_encoder_input_length,
                       cfg_align_encoder_id, state1, loop_input, loop_pos)} :
       \E state2 \in {StepAfterLook(cfg_decoder, state1, loop_input, loop_input_symbol, lk.context)} :
       \E output_ \in {generate(cfg_decoder, state2, loop_input, lk.context)} :
       \E taken \in {Case(UseTarget(loop_time, Len(decoder_inputs), u, feed_previous), feed_argmax)} :
            IF taken = "target" /\ ~(loop_time + 1 < Len(decoder_inputs))
            THEN /\ pc' = "failed"
                 /\ inputs_read' = inputs_read \cup {loop_time + 1}
                 /\ UNCHANGED <<loop_time, loop_input, loop_input_symbol, loop_pos, loop_state, loop_prev_weights,
                                ta_outputs, ta_samples, ta_states, ta_weights, ta_attns, draw, branch, carried, ops>>
            ELSE \E predicted_symbol \in {IF taken = "target" THEN decoder_inputs[loop_time + 2]
                                          ELSE IF taken = "softmax" THEN sample
                                          ELSE argmax(output_)} :
                 \E state3 \in {IF StepUpdateAfterSymbol(cfg_decoder)
                                THEN update(cfg_decoder, state2, StepDeferredInput(loop_input, predicted_symbol),
                                            Some(lk.context), Some(predicted_symbol))
                                ELSE state2} :
                 /\ ta_samples' = write(ta_samples, loop_time, predicted_symbol)
                 /\ loop_input' = embed(predicted_symbol)
                 /\ loop_pos' = update_pos(cfg_decoder, loop_pos, predicted_symbol,
                                           Some(cfg_encoder_input_length[cfg_align_encoder_id + 1]))
                 /\ ta_attns' = write(ta_attns, loop_time, lk.context)
                 /\ ta_weights' = write(ta_weights, loop_time, lk.new_weights)
                 /\ ta_states' = write(ta_states, loop_time, state2)
                 /\ ta_outputs' = write(ta_outputs, loop_time, output_)
                 /\ loop_state' = state3
                 /\ loop_time' = loop_time + 1
                 /\ loop_input_symbol' = predicted_symbol
                 /\ loop_prev_weights' = lk.new_weights
                 /\ inputs_read' = IF taken = "target" THEN inputs_read \cup {loop_time + 1} ELSE inputs_read
                 /\ draw' = u
                 /\ branch' = taken
                 /\ carried' = Append(carried, [state |-> state3, pos |-> loop_pos'])
                 /\ ops' = StepOps(cfg_decoder)
                 /\ pc' = pc
    /\ UNCHANGED <<cfg_vars, beam_vars>>

\* cond of the loop is false: the TensorArrays are stacked and returned
LoopExit ==
    /\ pc = "loop"
    /\ ~LoopCond(loop_time, Len(decoder_inputs))
    /\ pc' = "done"
    /\ UNCHANGED <<loop_time, loop_input, loop_input_symbol, loop_pos, loop_state, loop_prev_weights,
                   ta_outputs, ta_samples, ta_states, ta_weights, ta_attns, inputs_read, draw, branch, carried, ops>>
    /\ UNCHANGED <<cfg_vars, beam_vars>>

-----------------------------------------------------------------------------
(* get_logits, models.py 677-707 *)

LogitsUpdateBeforeLook(dec) ==
    IF dec.conditional_rnn THEN "conditional_1"
    ELSE IF dec.update_first THEN "update_first" ELSE "no"

LogitsUpdateAfterLook(dec) ==
    IF dec.conditional_rnn THEN "conditional_2"
    ELSE IF ~dec.generate_first THEN "update" ELSE "no"

LogitsUpdateAfterSymbol_Always(dec) == dec.generate_first
LogitsUpdateAfterSymbol(dec) == ~dec.conditional_rnn /\ ~dec.update_first /\ dec.generate_first

LogitsBeforeLook(dec, state, input_, ids) ==
    IF LogitsUpdateBeforeLook(dec) = "no" THEN state
    ELSE update(dec, state, input_, None,
                IF LogitsUpdateBeforeLook(dec) = "conditional_1" THEN None ELSE Some(ids))

LogitsAfterLook(dec, state, input_, ids, context) ==
    IF LogitsUpdateAfterLook(dec) = "no" THEN state
    ELSE IF LogitsUpdateAfterLook(dec) = "conditional_2" THEN update(dec, state, context, None, None)
    ELSE update(dec, state, input_, Some(context), Some(ids))

LogitsOps(dec) ==
    (IF LogitsUpdateBeforeLook(dec) = "no" THEN << >> ELSE <<LogitsUpdateBeforeLook(dec)>>) \o <<"look">>
    \o (IF LogitsUpdateAfterLook(dec) = "no" THEN << >> ELSE <<LogitsUpdateAfterLook(dec)>>)
    \o <<"generate", "symbol">>
    \o (IF LogitsUpdateAfterSymbol(dec) THEN <<"update_symbol">> ELSE << >>)

\* the id a greedy caller feeds next: the first decoder input, then the argmax
\* of the previous call's logits
GreedyId == IF beam_calls = 0 THEN decoder_inputs[1] ELSE argmax(beam_logits)

\* the caller, holding what attention_decoder returned, calls get_logits on
\* the packed state it holds with the ids it chose (as many calls as the loop
\* has steps)
GetLogits ==
    /\ pc = "done"
    /\ beam_calls < Len(decoder_inputs)
    /\ \E ids \in {GreedyId, DEL_ID} :
       \E sp \in {Split(beam_data, StateSize(cfg_decoder))} :
       \E input_ \in {embed(ids)} :
       \E state1 \in {LogitsBeforeLook(cfg_decoder, sp.state, input_, ids)} :
       \E lk \in {look(cfg_decoder, cfg_encoders, cfg_attention_states, cfg_encoder_input_length,
                       cfg_align_encoder_id, state1, input_, sp.pos)} :
       \E state2 \in {LogitsAfterLook(cfg_decoder, state1, input_, ids, lk.context)} :
       \E logits \in {generate(cfg_decoder, state2, input_, lk.context)} :
       \E predicted_symbol \in {argmax(logits)} :
       \E pos \in {update_pos(cfg_decoder, sp.pos, predicted_symbol,
                              Some(cfg_encoder_input_length[cfg_align_encoder_id + 1]))} :
       \E state3 \in {IF LogitsUpdateAfterSymbol(cfg_decoder)
                      THEN update(cfg_decoder, state2, embed(predicted_symbol), Some(lk.context),
                                  Some(predicted_symbol))
                      ELSE state2} :
            /\ beam_data' = Pack(state3, pos, lk.new_weights)
            /\ beam_logits' = logits
            /\ beam_parts' = [state |-> state3, pos |-> pos, prev_weights |-> lk.new_weights]
            /\ beam_ops' = LogitsOps(cfg_decoder)
            /\ beam_greedy' = (beam_greedy /\ ids = GreedyId)
            /\ beam_calls' = beam_calls + 1
    /\ UNCHANGED <<cfg_vars, loop_vars>>

-----------------------------------------------------------------------------
(* Construction of the decoder *)

\* encoder_outputs_[:, -1, :], models.py 245-246, of every encoder
EncoderState(attention_states_) ==
    Tensor([i \in 1..Len(attention_states_) |-> attention_states_[i][Len(attention_states_[i])]])

Decoder(conditional_rnn, update_first, generate_first, pred_edits, skip_update, use_lstm) ==
    [conditional_rnn |-> conditional_rnn, update_first |-> update_first,
     generate_first |-> generate_first, pred_edits |-> pred_edits, skip_update |-> skip_update,
     use_lstm |-> use_lstm, cell_size |-> 1, layers |-> 1,
     attn_use_lstm_state |-> FALSE, attn_prev_word |-> FALSE, rnn_feed_attn |-> TRUE,
     pred_use_lstm_state |-> FALSE, use_previous_word |-> TRUE, aggregation_method |-> "sum"]

\* the state on return from the construction code of attention_decoder, for the
\* given arguments
DecInit(dec, encs, maxlens, lengths, align, inputs, fp, fa) ==
    /\ cfg_decoder = dec
    /\ cfg_encoders = encs
    /\ cfg_attention_states = Tensor([i \in 1..Len(encs) |-> HiddenStates(maxlens[i], lengths[i])])
    /\ cfg_encoder_input_length = lengths
    /\ cfg_align_encoder_id = align
    /\ decoder_inputs = inputs
    /\ feed_previous = fp
    /\ feed_argmax = fa
    /\ pc = "loop"
    /\ loop_time = 0
    /\ inputs_read = {0}
    /\ loop_input_symbol = inputs[1]
    /\ loop_input = embed(inputs[1])
    /\ loop_pos = 0
    /\ loop_state = InitialState(dec, EncoderState(cfg_attention_states))
    /\ loop_prev_weights = InitialWeights(cfg_attention_states, align)
    /\ initial_data = Pack(loop_state, loop_pos, loop_prev_weights)
    /\ ta_outputs = TensorArray(Len(inputs))
    /\ ta_samples = TensorArray(Len(inputs))
    /\ ta_states = TensorArray(Len(inputs))
    /\ ta_weights = TensorArray(Len(inputs))
    /\ ta_attns = TensorArray(Len(inputs))
    /\ draw = 0
    /\ branch = "none"
    /\ carried = << >>
    /\ ops = << >>
    /\ beam_data = initial_data
    /\ beam_logits = << >>
    /\ beam_calls = 0
    /\ beam_greedy = TRUE
    /\ beam_parts = [state |-> loop_state, pos |-> loop_pos, prev_weights |-> loop_prev_weights]
    /\ beam_ops = << >>

DecIdle ==
    /\ cfg_decoder = None /\ cfg_encoders = << >> /\ cfg_attention_states = << >>
    /\ cfg_encoder_input_length = << >> /\ cfg_align_encoder_id = 0 /\ decoder_inputs = << >>
    /\ feed_previous = 0 /\ feed_argmax = TRUE /\ initial_data = << >>
    /\ pc = "idle" /\ loop_time = 0 /\ loop_input = << >> /\ loop_input_symbol = 0 /\ loop_pos = 0
    /\ loop_state = << >> /\ loop_prev_weights = << >>
    /\ ta_outputs = None /\ ta_samples = None /\ ta_states = None /\ ta_weights = None /\ ta_attns = None
    /\ inputs_read = {} /\ draw = 0 /\ branch = "none" /\ carried = << >> /\ ops = << >>
    /\ beam_data = << >> /\ beam_logits = << >> /\ beam_calls = 0 /\ beam_greedy = TRUE
    /\ beam_parts = None /\ beam_ops = << >>

-----------------------------------------------------------------------------
(* multi_encoder, models.py 53-253, for encoders of one layer whose cell    *)
(* has one feature (two per position for a bidirectional encoder without    *)
(* projection), and the configuration check of attention_decoder.           *)

VARIABLES
    me_encoders,              \* encoder configuration records
    me_encoder_inputs,        \* one row of token ids (features if binary) per encoder
    me_encoder_input_length,  \* valid length, one per encoder
    me_status,                \* "ready", "returned", the exception raised, "idle"
    me_result,                \* what multi_encoder returned (None when it raised)
    ad_decoder,               \* decoder configuration record
    ad_status                 \* "ready", "constructing", the exception raised, "idle"

build_vars == <<me_encoders, me_encoder_inputs, me_encoder_input_length, me_status, me_result,
                ad_decoder, ad_status>>

MaxInputLen == 3   \* largest time dimension of an encoder input

NotImplementedError == "NotImplementedError"
AssertionError == "AssertionError"

FinalStates == {"last", "average", "concat_last"}

EncoderConfig(binary, convolutions, maxout_stride, bidir, bidir_projection, time_pooling, final_state) ==
    [binary |-> binary, convolutions |-> convolutions, maxout_stride |-> maxout_stride,
     bidir |-> bidir, bidir_projection |-> bidir_projection, time_pooling |-> time_pooling,
     final_state |-> final_state, layers |-> 1, cell_size |-> 1]

\* the raise statements of the loop body, in the order the body reaches them
Raises_MaxoutUnchecked(encoder) ==
    \/ encoder.convolutions # << >> /\ encoder.binary
    \/ ~encoder.bidir /\ (encoder.time_pooling # << >> \/ encoder.final_state = "concat_last")
Raises(encoder) ==
    \/ encoder.convolutions # << >> /\ encoder.binary
    \/ encoder.maxout_stride # 0 /\ encoder.binary
    \/ ~encoder.bidir /\ (encoder.time_pooling # << >> \/ encoder.final_state = "concat_last")

\* tf.nn.embedding_lookup(embedding, flat_inputs), one feature per token
embedding_lookup(ids) == Tensor([t \in 1..Len(ids) |-> 2 * ids[t] - 3])

relu(x) == Maximum(x, 0)

\* tf.nn.convolution with the filter of width 1, then tf.nn.relu
convolution(encoder_inputs_) ==
    Tensor([t \in 1..Len(encoder_inputs_) |-> relu(3 * encoder_inputs_[t])])

\* ceil(a / b)
ceil(a, b) == (a + b - 1) \div b

\* zero padding to a multiple of the stride, then tf.nn.pool(MAX) over strides
pool(encoder_inputs_, stride) ==
    LET n == ceil(Len(encoder_inputs_), stride)
        padded == Tensor([t \in 1..(n * stride) |->
                      IF t <= Len(encoder_inputs_) THEN encoder_inputs_[t] ELSE 0])
    IN  Tensor([j \in 1..n |-> reduce_max(SubSeq(padded, (j - 1) * stride + 1, j * stride))])

\* the forward cell and the backward cell of the encoder (fixed functions)
cell_fw(input_, state) == 2 * state + input_ + 1
cell_bw(input_, state) == 3 * state + input_ + 2

\* state of the forward cell after reading positions 1..t
RECURSIVE Forward(_, _)
Forward(inputs, t) == IF t = 0 THEN 0 ELSE cell_fw(inputs[t], Forward(inputs, t - 1))

\* state of the backward cell after reading positions length..t
RECURSIVE Backward(_, _, _)
Backward(inputs, length, t) ==
    IF t > length THEN 0 ELSE cell_bw(inputs[t], Backward(inputs, length, t + 1))

\* tf.nn.dynamic_rnn(cell, inputs, sequence_length): the outputs are zero from
\* the sequence length on, the returned state is the one at the sequence length
dynamic_rnn(inputs, sequence_length) ==
    [outputs |-> Tensor([t \in 1..Len(inputs) |->
                    IF t <= sequence_length THEN <<Forward(inputs, t)>> ELSE <<0>>]),
     states |-> <<Forward(inputs, Minimum(sequence_length, Len(inputs)))>>]

\* stack_bidirectional_dynamic_rnn with one layer: forward and backward
\* outputs concatenated along the feature axis, and the backward final state
stack_bidirectional_dynamic_rnn(inputs, sequence_length) ==
    [outputs |-> Tensor([t \in 1..Len(inputs) |->
                    IF t <= sequence_length
                    THEN <<Forward(inputs, t), Backward(inputs, sequence_length, t)>>
                    ELSE <<0, 0>>]),
     states |-> <<Backward(inputs, sequence_length, 1)>>]

\* a feature vector of integers as floats
to_float(x) == Tensor([k \in 1..Len(x) |-> truediv(x[k], 1)])

\* encoder_state_, models.py 237-246
FinalState(encoder, encoder_inputs_, encoder_input_length_, encoder_outputs_, encoder_states_) ==
    IF encoder.final_state = "concat_last" THEN to_float(encoder_states_)
    ELSE IF encoder.final_state = "average" THEN
        LET mask == sequence_mask(encoder_input_length_, Len(encoder_inputs_))
        IN  << truediv(reduce_sum(Tensor([t \in 1..Len(encoder_inputs_) |-> mask[t] * encoder_inputs_[t]])),
                       reduce_sum(mask)) >>
    ELSE IF encoder.bidir THEN to_float(SubSeq(encoder_outputs_[1], encoder.cell_size + 1, 2 * encoder.cell_size))
    ELSE to_float(encoder_outputs_[Len(encoder_outputs_)])

\* dense(encoder_outputs_, cell_size, use_bias=False, name='bidir_projection')
bidir_projection_dense(encoder_outputs_) ==
    Tensor([t \in 1..Len(encoder_outputs_) |-> <<encoder_outputs_[t][1] + 2 * encoder_outputs_[t][2]>>])

\* one iteration of the loop over the encoders, for an encoder that does not raise
EncoderBody(encoder, inputs, input_length) ==
    LET embedded == IF encoder.binary THEN inputs ELSE embedding_lookup(inputs)
        convolved == IF encoder.convolutions # << >> THEN convolution(embedded) ELSE embedded
        encoder_inputs_ == IF encoder.maxout_stride # 0 THEN pool(convolved, encoder.maxout_stride)
                           ELSE convolved
        encoder_input_length_ == IF encoder.maxout_stride # 0 THEN ceil(input_length, encoder.maxout_stride)
                                 ELSE input_length
        rnn == IF encoder.bidir THEN stack_bidirectional_dynamic_rnn(encoder_inputs_, encoder_input_length_)
               ELSE dynamic_rnn(encoder_inputs_, encoder_input_length_)
    IN  [encoder_inputs_ |-> encoder_inputs_,
         encoder_outputs_ |-> IF encoder.bidir /\ encoder.bidir_projection
                              THEN bidir_projection_dense(rnn.outputs) ELSE rnn.outputs,
         encoder_state_ |-> FinalState(encoder, encoder_inputs_, encoder_input_length_, rnn.outputs, rnn.states),
         encoder_input_length_ |-> encoder_input_length_]

RECURSIVE ConcatAll(_)
ConcatAll(xs) == IF Len(xs) = 0 THEN << >> ELSE xs[1] \o ConcatAll(Tail(xs))

\* the three values multi_encoder returns (and the inputs of each recurrent
\* layer, which it does not return)
multi_encoder(encoder_inputs, encoders, encoder_input_length) ==
    LET body == Tensor([i \in 1..Len(encoders) |->
                    EncoderBody(encoders[i], encoder_inputs[i], encoder_input_length[i])])
    IN  [encoder_outputs |-> Tensor([i \in 1..Len(encoders) |-> body[i].encoder_outputs_]),
         encoder_state |-> ConcatAll(Tensor([i \in 1..Len(encoders) |-> body[i].encoder_state_])),
         new_encoder_input_length |-> Tensor([i \in 1..Len(encoders) |-> body[i].encoder_input_length_]),
         rnn_inputs |-> Tensor([i \in 1..Len(encoders) |-> body[i].encoder_inputs_])]

CallMultiEncoder ==
    /\ me_status = "ready"
    /\ IF \E i \in 1..Len(me_encoders) : Raises(me_encoders[i])
       THEN /\ me_status' = NotImplementedError
            /\ me_result' = None
       ELSE /\ me_status' = "returned"
            /\ me_result' = Some(multi_encoder(me_encoder_inputs, me_encoders, me_encoder_input_length))
    /\ UNCHANGED <<me_encoders, me_encoder_inputs, me_encoder_input_length, ad_decoder, ad_status>>

\* attention_decoder up to its first statement, called with what multi_encoder returned
CallAttentionDecoder ==
    /\ me_status = "returned"
    /\ ad_status = "ready"
    /\ ad_status' = IF ~(~ad_decoder.pred_maxout_layer \/ ad_decoder.cell_size % 2 = 0)
                    THEN AssertionError ELSE "constructing"
    /\ UNCHANGED <<me_encoders, me_encoder_inputs, me_encoder_input_length, me_status, me_result, ad_decoder>>

\* a row of T ids whose first end-of-sequence id is its L-th token
PaddedRow(T, L, id) == Tensor([t \in 1..T |-> IF t < L THEN id ELSE EOS_ID])

InputRows == {PaddedRow(T, L, id) : T \in 1..MaxInputLen, L \in 1..MaxInputLen, id \in {UNK_ID, DEL_ID}}

\* encoder_input_length as encoder_decoder computes it, models.py 785-789
InputLength(encoder_inputs_) == reduce_sum(get_weights(encoder_inputs_, EOS_ID, TRUE))

MaxoutStrides == {0, 2}
Convolutions == {<< >>, <<1>>}
TimePoolings == {<< >>, <<2>>}

BuildInit ==
    /\ \E binary \in BOOLEAN, convolutions \in Convolutions, maxout_stride \in MaxoutStrides :
       \E bidir \in BOOLEAN, time_pooling \in TimePoolings, final_state \in FinalStates :
       \E projection \in {FALSE, bidir} :
          me_encoders = <<EncoderConfig(binary, convolutions, maxout_stride, bidir, projection,
                                        time_pooling, final_state)>>
    /\ \E row \in InputRows :
          /\ me_encoder_inputs = <<row>>
          /\ me_encoder_input_length = <<InputLength(row)>>
    /\ me_status = "ready"
    /\ me_result = None
    /\ ad_decoder \in [pred_maxout_layer : BOOLEAN, cell_size : 1..2]
    /\ ad_status = "ready"

BuildIdle ==
    /\ me_encoders = << >> /\ me_encoder_inputs = << >> /\ me_encoder_input_length = << >>
    /\ me_status = "idle" /\ me_result = None
    /\ ad_decoder = None /\ ad_status = "idle"

-----------------------------------------------------------------------------
(* Parameter creation: auto_reuse (models.py 9-28) over the variable store  *)
(* of the graph, and the creation sites of the graph-building functions.    *)
(* A variable name is the pair <<scope, name>>; the identity of a variable  *)
(* is its index in the store.                                               *)

VARIABLES
    vs_store,     \* the variables of the graph, in creation order: [name, shape]
    vs_built,     \* the graph-building functions that have returned so far
    vs_calls,     \* number of calls so far
    vs_call       \* the last call: its arguments, the store before it, what it returned or raised

store_vars == <<vs_store, vs_built, vs_calls, vs_call>>

MaxCalls == 3      \* calls in one behaviour

\* the messages of the ValueError tf.get_variable raises
AlreadyExists == "Variable already exists, disallowed. Did you mean to set reuse=True in VarScope?"
DoesNotExist == "Variable does not exist, or was not created with tf.get_variable(). Did you mean to set reuse=None in VarScope?"
ShapeMismatch == "Trying to share variable, but specified shape and found shape differ."

\* 'reuse' in str(e)
MentionsReuse(message) == message \in {AlreadyExists, DoesNotExist}

\* index of the variable of that name, 0 when there is none
Lookup(store, name) ==
    IF \E i \in 1..Len(store) : store[i].name = name
    THEN CHOOSE i \in 1..Len(store) : store[i].name = name /\ \A j \in 1..(i - 1) : store[j].name # name
    ELSE 0

Returned(store, variables) == [store |-> store, raised |-> "", variables |-> variables]
Raised(store, message) == [store |-> store, raised |-> message, variables |-> << >>]

\* tf.get_variable(name, shape=shape) in a variable scope whose reuse flag is `reuse`
tf_get_variable(store, name, shape, reuse) ==
    LET found == Lookup(store, name)
    IN  IF reuse
        THEN IF found = 0 THEN Raised(store, DoesNotExist)
             ELSE IF store[found].shape # shape THEN Raised(store, ShapeMismatch)
             ELSE Returned(store, <<found>>)
        ELSE IF found # 0 THEN Raised(store, AlreadyExists)
             ELSE Returned(Append(store, [name |-> name, shape |-> shape]), <<Len(store) + 1>>)

\* tf.layers.dense(inputs, units, use_bias=use_bias, name=name): the kernel, then the bias
tf_layers_dense(store, name, units, use_bias, reuse) ==
    LET kernel == tf_get_variable(store, name \o <<"kernel">>, units, reuse)
        bias == tf_get_variable(kernel.store, name \o <<"bias">>, units, reuse)
    IN  IF kernel.raised # "" \/ ~use_bias THEN kernel
        ELSE IF bias.raised # "" THEN bias
        ELSE Returned(bias.store, kernel.variables \o bias.variables)

\* the wrapper of auto_reuse: the result of the first call unless it raised a
\* ValueError that mentions 'reuse', then the result of the call repeated
\* with reuse=True
auto_reuse(first, repeated) ==
    IF first.raised # "" /\ MentionsReuse(first.raised) THEN repeated ELSE first

get_variable_Unwrapped(store, name, shape, reuse) == tf_get_variable(store, name, shape, reuse)
get_variable(store, name, shape, reuse) ==
    auto_reuse(tf_get_variable(store, name, shape, reuse),
               tf_get_variable(tf_get_variable(store, name, shape, reuse).store, name, shape, TRUE))

layers_dense(store, name, units, use_bias, reuse) ==
    auto_reuse(tf_layers_dense(store, name, units, use_bias, reuse),
               tf_layers_dense(tf_layers_dense(store, name, units, use_bias, reuse).store,
                               name, units, use_bias, TRUE))

\* try: get_cell(input_size)(...) except ValueError: get_cell(input_size, reuse=True)(...)
try_except_reuse(store, name, shape, reuse) ==
    LET first == tf_get_variable(store, name, shape, reuse)
    IN  IF first.raised # "" THEN tf_get_variable(first.store, name, shape, TRUE) ELSE first

Site(how, scope, name, shape) ==
    [how |-> how, name |-> <<scope, name>>, shape |-> shape, use_bias |-> FALSE]
DenseSite(scope, name, units, use_bias) ==
    [how |-> "dense", name |-> <<scope, name>>, shape |-> units, use_bias |-> use_bias]

RunSite(store, site, reuse) ==
    CASE site.how = "get_variable" -> get_variable(store, site.name, site.shape, reuse)
      [] site.how = "dense" -> layers_dense(store, site.name, site.shape, site.use_bias, reuse)
      [] site.how = "try_except" -> try_except_reuse(store, site.name, site.shape, reuse)
      [] site.how = "auto_reuse" -> get_variable(store, site.name, site.shape, reuse)
      [] OTHER -> tf_get_variable(store, site.name, site.shape, reuse)

\* the creation sites a function runs through, in order, up to the first that raises
RECURSIVE RunSites(_, _, _)
RunSites(store, sites, reuse) ==
    IF Len(sites) = 0 THEN Returned(store, << >>)
    ELSE LET head == RunSite(store, sites[1], reuse)
         IN  IF head.raised # "" THEN head
             ELSE LET rest == RunSites(head.store, Tail(sites), reuse)
                  IN  [rest EXCEPT !.variables = head.variables \o rest.variables]

\* multi_encoder for one unidirectional encoder with trained initial states
MultiEncoderSites(encoder_name) ==
    << Site("get_variable", "", "embedding_" \o encoder_name, 2),
       Site("get_variable", "encoder_" \o encoder_name, "initial_state", 1),
       Site("auto_reuse", "encoder_" \o encoder_name, "rnn/cell", 1) >>

\* attention_decoder with one global-attention encoder
AttentionDecoderSites(decoder_name, encoder_name) ==
    << Site("get_variable", "", "embedding_" \o decoder_name, 2),
       DenseSite("decoder_" \o decoder_name, "initial_state_projection", 1, FALSE),
       Site("try_except", "decoder_" \o decoder_name, "cell", 1),
       DenseSite("decoder_" \o decoder_name, "attention_" \o encoder_name \o "/W_a", 1, TRUE),
       DenseSite("decoder_" \o decoder_name, "attention_" \o encoder_name \o "/U_a", 1, FALSE),
       Site("get_variable", "decoder_" \o decoder_name, "attention_" \o encoder_name \o "/v_a", 1),
       DenseSite("decoder_" \o decoder_name, "softmax1", 2, TRUE) >>

ChainingStrategies == {"sum_attns", "map_attns", "map_states", "map_outputs"}

\* chained_encoder_decoder with encoders "a", "b" and decoder "c"
ChainedSites(chaining_strategy) ==
    MultiEncoderSites("b") \o AttentionDecoderSites("a", "b") \o MultiEncoderSites("a")
    \o (IF chaining_strategy \in {"map_attns", "map_states", "map_outputs"}
        THEN << Site("tf.get_variable", "", "map_attns/matrix", 1),
                Site("tf.get_variable", "", "map_attns/bias", 1) >>
        ELSE << >>)
    \o AttentionDecoderSites("c", "a")

\* encoder_decoder with encoder "a" and decoder "c"
EncoderDecoderSites == MultiEncoderSites("a") \o AttentionDecoderSites("c", "a")

Builders == {<<"encoder_decoder", "">>} \cup {<<"chained_encoder_decoder", s>> : s \in ChainingStrategies}

BuilderSites(builder) ==
    IF builder[1] = "encoder_decoder" THEN EncoderDecoderSites ELSE ChainedSites(builder[2])

\* names and shapes of the calls made directly
DirectNames == {<<"", "embedding_a">>, <<"decoder_c", "softmax1">>}
Shapes == {1, 2}

Call(kind, name, shape, use_bias, reuse, builder, r) ==
    [kind |-> kind, name |-> name, shape |-> shape, use_bias |-> use_bias, reuse |-> reuse,
     builder |-> builder, before |-> vs_store, built_before |-> vs_built,
     raised |-> r.raised, variables |-> r.variables]

\* get_variable(name, shape=shape)
CallGetVariable ==
    /\ vs_calls < MaxCalls
    /\ \E name \in DirectNames, shape \in Shapes, reuse \in BOOLEAN :
       \E r \in {get_variable(vs_store, name, shape, reuse)} :
          /\ vs_store' = r.store
          /\ vs_call' = Some(Call("get_variable", name, shape, FALSE, reuse, <<"", "">>, r))
    /\ vs_calls' = vs_calls + 1
    /\ UNCHANGED vs_built

\* dense(inputs, units, use_bias=use_bias, name=name)
CallDense ==
    /\ vs_calls < MaxCalls
    /\ \E name \in DirectNames, units \in Shapes, use_bias \in BOOLEAN, reuse \in BOOLEAN :
       \E r \in {layers_dense(vs_store, name, units, use_bias, reuse)} :
          /\ vs_store' = r.store
          /\ vs_call' = Some(Call("dense", name, units, use_bias, reuse, <<"", "">>, r))
    /\ vs_calls' = vs_calls + 1
    /\ UNCHANGED vs_built

\* one call of encoder_decoder or chained_encoder_decoder in the root scope
CallBuilder ==
    /\ vs_calls < MaxCalls
    /\ \E builder \in Builders, reuse \in BOOLEAN :
       \E r \in {RunSites(vs_store, BuilderSites(builder), reuse)} :
          /\ vs_store' = r.store
          /\ vs_call' = Some(Call("build", << >>, 0, FALSE, reuse, builder, r))
          /\ vs_built' = IF r.raised = "" THEN vs_built \cup {builder} ELSE vs_built
    /\ vs_calls' = vs_calls + 1

StoreInit ==
    /\ vs_store = << >>
    /\ vs_built = {}
    /\ vs_calls = 0
    /\ vs_call = None

StoreIdle ==
    /\ vs_store = << >>
    /\ vs_built = {}
    /\ vs_calls = MaxCalls
    /\ vs_call = None

-----------------------------------------------------------------------------
(* chained_encoder_decoder, models.py 823-925, and sequence_loss, models.py *)
(* 936-961.  The two calls of attention_decoder run the loop above.  The    *)
(* decoder reads one feature of every encoder hidden state; the static      *)
(* shape <<batch, time, features>> of a tensor is computed from the         *)
(* configured sizes, as graph construction does.                            *)

VARIABLES
    ch_args,      \* the arguments of the call
    ch_pc,        \* "start", "stage1", "stage2", "returned", "failed", "idle"
    ch_stage1,    \* what the stage-1 decoder returned, and the chaining loss
    ch_stage2,    \* the attention states of stage 2 and the shapes around the combination
    ch_result     \* the exception raised, or the losses returned

chain_vars == <<ch_args, ch_pc, ch_stage1, ch_stage2, ch_result>>

ValueError == "ValueError"

\* tf.nn.sparse_softmax_cross_entropy_with_logits for one position, with the
\* log-sum-exp of the logits taken as their maximum plus one
sparse_softmax_cross_entropy_with_logits(logits, label) == reduce_max(logits) + 1 - logits[label + 1]

\* sequence_loss(logits, targets, weights) with the default flags, for a
\* batch given as a sequence of rows
sequence_loss(logits, targets, weights) ==
    LET batch_size == Len(targets)
        time_steps == Len(targets[1])
        crossent == Tensor([b \in 1..batch_size |-> Tensor([t \in 1..time_steps |->
                        sparse_softmax_cross_entropy_with_logits(logits[b][t], targets[b][t])])])
        log_perp == Tensor([b \in 1..batch_size |->
                        reduce_sum(Tensor([t \in 1..time_steps |-> crossent[b][t] * weights[b][t]]))])
        cost == reduce_sum(log_perp)
    IN  truediv(cost, batch_size)

\* TensorArray.stack()
stack(ta) == Tensor([i \in 1..Len(ta.vals) |-> ta.vals[i][1]])

\* an encoder configuration of the chained model; as encoders[0] it is also
\* the configuration of the stage-1 decoder
ChainEncoder(attention_type, cell_size) ==
    [attention_type |-> attention_type, attn_window_size |-> 0,
     binary |-> FALSE, convolutions |-> << >>, maxout_stride |-> 0, bidir |-> FALSE,
     bidir_projection |-> FALSE, time_pooling |-> << >>, final_state |-> "last",
     layers |-> 1, cell_size |-> cell_size,
     conditional_rnn |-> FALSE, update_first |-> FALSE, generate_first |-> FALSE,
     pred_edits |-> FALSE, skip_update |-> FALSE, use_lstm |-> FALSE,
     attn_use_lstm_state |-> FALSE, attn_prev_word |-> FALSE, rnn_feed_attn |-> TRUE,
     pred_use_lstm_state |-> FALSE, use_previous_word |-> TRUE, aggregation_method |-> "sum"]

\* feature width of an encoder's hidden states and of a context computed from them
OutputWidth(encoder) ==
    IF encoder.bidir /\ ~encoder.bidir_projection THEN 2 * encoder.cell_size ELSE encoder.cell_size
ContextWidth(encoder) == IF encoder.attention_type = "none" THEN 0 ELSE OutputWidth(encoder)

\* static shape of a + b; << >> when the two shapes do not broadcast
BroadcastShape(a, b) ==
    IF \A k \in 1..Len(a) : a[k] = b[k] \/ a[k] = 1 \/ b[k] = 1
    THEN Tensor([k \in 1..Len(a) |-> IF a[k] = 1 THEN b[k] ELSE a[k]])
    ELSE << >>

\* attention_states[0] += attns, for the feature the decoder reads
SumAttns(attention_states_, attns) ==
    Tensor([t \in 1..Len(attention_states_) |-> attention_states_[t] + attns[t][1][1] \div attns[t][1][2]])

\* the feature of the hidden states, and of the summary state, the decoder reads
FirstFeature(encoder_outputs_) == Tensor([t \in 1..Len(encoder_outputs_) |-> encoder_outputs_[t][1]])
to_int(x) == Tensor([k \in 1..Len(x) |-> x[k][1] \div x[k][2]])

\* xent_loss += chaining_loss_ratio * chaining_loss, the ratio in units of 1/2
AddChainingLoss_RatioIgnored(xent_loss, chaining_loss_ratio, chaining_loss) ==
    AddFloat(xent_loss, chaining_loss)
AddChainingLoss(xent_loss, chaining_loss_ratio, chaining_loss) ==
    IF chaining_loss_ratio # 0
    THEN AddFloat(xent_loss, truediv(chaining_loss_ratio * chaining_loss[1], 2 * chaining_loss[2]))
    ELSE xent_loss

\* decoder_inputs of stage 1, models.py 845-849
Stage1DecoderInputs_WholeInput(encoder_inputs_) ==
    concat(<<BOS_ID>>, encoder_inputs_)
Stage1DecoderInputs(encoder_inputs_) ==
    concat(<<BOS_ID>>, SubSeq(encoder_inputs_, 1, Len(encoder_inputs_) - 1))

\* the state on return from the construction code of attention_decoder, as
\* DecInit, for attention states computed by multi_encoder
StartDecoder(dec, encs, attention_states_, initial_state, lengths, align, inputs, fp, fa) ==
    \E state \in {InitialState(dec, initial_state)} :
    \E weights \in {InitialWeights(attention_states_, align)} :
        /\ cfg_decoder' = dec
        /\ cfg_encoders' = encs
        /\ cfg_attention_states' = attention_states_
        /\ cfg_encoder_input_length' = lengths
        /\ cfg_align_encoder_id' = align
        /\ decoder_inputs' = inputs
        /\ feed_previous' = fp
        /\ feed_argmax' = fa
        /\ pc' = "loop"
        /\ loop_time' = 0
        /\ inputs_read' = {0}
        /\ loop_input_symbol' = inputs[1]
        /\ loop_input' = embed(inputs[1])
        /\ loop_pos' = 0
        /\ loop_state' = state
        /\ loop_prev_weights' = weights
        /\ initial_data' = Pack(state, 0, weights)
        /\ ta_outputs' = TensorArray(Len(inputs))
        /\ ta_samples' = TensorArray(Len(inputs))
        /\ ta_states' = TensorArray(Len(inputs))
        /\ ta_weights' = TensorArray(Len(inputs))
        /\ ta_attns' = TensorArray(Len(inputs))
        /\ draw' = 0
        /\ branch' = "none"
        /\ carried' = << >>
        /\ ops' = << >>
        /\ beam_data' = Pack(state, 0, weights)
        /\ beam_logits' = << >>
        /\ beam_calls' = 0
        /\ beam_greedy' = TRUE
        /\ beam_parts' = [state |-> state, pos |-> 0, prev_weights |-> weights]
        /\ beam_ops' = << >>

\* models.py 826-854: the assertion, the input lengths, the stage-1 encoder
\* and the construction of the stage-1 decoder
ChainStart ==
    /\ ch_pc = "start"
    /\ IF Len(ch_args.encoders) # 2
       THEN /\ ch_pc' = "failed"
            /\ ch_result' = [raised |-> AssertionError, losses |-> << >>]
            /\ UNCHANGED <<cfg_vars, loop_vars, beam_vars>>
       ELSE \E length \in {InputLength(ch_args.encoder_inputs[2])} :
            \E enc \in {multi_encoder(<<ch_args.encoder_inputs[2]>>, <<ch_args.encoders[2]>>, <<length>>)} :
               /\ StartDecoder(ch_args.encoders[1], <<ch_args.encoders[2]>>,
                               <<FirstFeature(enc.encoder_outputs[1])>>, to_int(enc.encoder_state),
                               enc.new_encoder_input_length, 0,
                               Stage1DecoderInputs(ch_args.encoder_inputs[1]), 0, TRUE)
               /\ ch_pc' = "stage1"
               /\ ch_result' = ch_result
    /\ UNCHANGED <<ch_args, ch_stage1, ch_stage2>>

\* models.py 856-915: the chaining loss, the stage-2 encoder, the combination
\* of its hidden states with the stage-1 contexts and the construction of the
\* stage-2 decoder
ChainCombine ==
    /\ ch_pc = "stage1"
    /\ pc = "done"
    /\ \E input_weights \in {get_weights(ch_args.encoder_inputs[1], EOS_ID, TRUE)} :
       \E chaining_loss \in {sequence_loss(<<stack(ta_outputs)>>, <<ch_args.encoder_inputs[1]>>,
                                           <<input_weights>>)} :
       \E enc \in {multi_encoder(<<ch_args.encoder_inputs[1]>>, <<ch_args.encoders[1]>>,
                                 <<reduce_sum(input_weights)>>)} :
       \E attns \in {stack(ta_attns)} :
       \E before \in {<<1, Len(enc.encoder_outputs[1]), OutputWidth(ch_args.encoders[1])>>} :
       \E added \in {<<1, Len(attns), ContextWidth(ch_args.encoders[2])>>} :
       \E after \in {IF ch_args.chaining_strategy = "sum_attns" THEN BroadcastShape(before, added)
                     ELSE before} :
          /\ ch_stage1' = Some([outputs |-> stack(ta_outputs), states |-> stack(ta_states),
                                attns |-> attns, steps |-> loop_time, chaining_loss |-> chaining_loss,
                                decoder_inputs |-> decoder_inputs])
          /\ ch_stage2' = Some([before |-> before, added |-> added, after |-> after])
          /\ IF after = << >>
             THEN /\ ch_pc' = "failed"
                  /\ ch_result' = [raised |-> ValueError, losses |-> << >>]
                  /\ UNCHANGED <<cfg_vars, loop_vars, beam_vars>>
             ELSE /\ StartDecoder(ch_args.decoder, <<ch_args.encoders[1]>>,
                                  <<IF ch_args.chaining_strategy = "sum_attns"
                                    THEN SumAttns(FirstFeature(enc.encoder_outputs[1]), attns)
                                    ELSE FirstFeature(enc.encoder_outputs[1])>>,
                                  to_int(enc.encoder_state), enc.new_encoder_input_length, 0,
                                  SubSeq(ch_args.targets, 1, Len(ch_args.targets) - 1),
                                  ch_args.feed_previous, TRUE)
                  /\ ch_pc' = "stage2"
                  /\ ch_result' = ch_result
    /\ UNCHANGED ch_args

\* models.py 917-925: the losses
ChainReturn ==
    /\ ch_pc = "stage2"
    /\ pc = "done"
    /\ \E targets \in {Tail(ch_args.targets)} :
       \E target_weights \in {get_weights(targets, EOS_ID, TRUE)} :
       \E xent_loss \in {sequence_loss(<<stack(ta_outputs)>>, <<targets>>, <<target_weights>>)} :
          ch_result' = [raised |-> "",
                        losses |-> <<AddChainingLoss(xent_loss, ch_args.chaining_loss_ratio,
                                                     ch_stage1[1].chaining_loss), None, None>>]
    /\ ch_pc' = "returned"
    /\ UNCHANGED <<ch_args, ch_stage1, ch_stage2, cfg_vars, loop_vars, beam_vars>>

\* the decoder loop of the stage that is running
ChainLoop ==
    /\ ch_pc \in {"stage1", "stage2"}
    /\ (TimeStep \/ LoopExit)
    /\ UNCHANGED chain_vars

\* <<cell_size of encoders[0], cell_size of encoders[1]>>
CellSizes == {<<1, 1>>, <<2, 2>>, <<2, 1>>, <<1, 2>>, <<2, 3>>}

ChainTargets == {<<BOS_ID, KEEP_ID, EOS_ID>>, <<BOS_ID, EOS_ID, DEL_ID>>, <<BOS_ID, UNK_ID>>}

ChainRows == {PaddedRow(T, L, id) : T \in 1..MaxEncLen, L \in 1..MaxEncLen, id \in {UNK_ID, DEL_ID}}

ChainInit ==
    /\ \E n \in 1..3, sizes \in CellSizes, type \in {"global", "last_state"} :
       \E first \in ChainRows, second \in {PaddedRow(MaxEncLen, L, KEEP_ID) : L \in 1..MaxEncLen} :
       \E targets \in ChainTargets, strategy \in {"none", "sum_attns"}, ratio \in {0, 1, 2} :
          ch_args = [encoders |-> SubSeq(<<ChainEncoder(type, sizes[1]), ChainEncoder("last_state", sizes[2]),
                                           ChainEncoder("last_state", 1)>>, 1, n),
                     decoder |-> Decoder(FALSE, FALSE, FALSE, FALSE, FALSE, FALSE),
                     encoder_inputs |-> SubSeq(<<first, second, second>>, 1, n),
                     targets |-> targets,
                     feed_previous |-> 0,
                     chaining_strategy |-> strategy,
                     chaining_loss_ratio |-> ratio]
    /\ ch_pc = "start"
    /\ ch_stage1 = None
    /\ ch_stage2 = None
    /\ ch_result = [raised |-> "", losses |-> << >>]

ChainIdle ==
    /\ ch_args = None
    /\ ch_pc = "idle"
    /\ ch_stage1 = None
    /\ ch_stage2 = None
    /\ ch_result = [raised |-> "", losses |-> << >>]

-----------------------------------------------------------------------------
(* The cross-entropy loss of encoder_decoder, models.py 794 and 817-818,    *)
(* for two runs: the outputs of attention_decoder and the targets of each   *)
(* run are the inputs of the computation.                                   *)

VARIABLES
    xl_runs,     \* the two runs: [outputs, targets], a batch of rows each
    xl_losses    \* the xent_loss of each run, None before it is computed

loss_vars == <<xl_runs, xl_losses>>

MaxBatch == 2      \* largest batch size

\* target_weights and xent_loss of encoder_decoder
xent_loss_ExcludeFirstEos(outputs, targets) ==
    LET targets_ == Tensor([b \in 1..Len(targets) |-> Tail(targets[b])])
        target_weights == Tensor([b \in 1..Len(targets) |-> get_weights(targets_[b], EOS_ID, FALSE)])
    IN  sequence_loss(outputs, targets_, target_weights)
xent_loss(outputs, targets) ==
    LET targets_ == Tensor([b \in 1..Len(targets) |-> Tail(targets[b])])
        target_weights == Tensor([b \in 1..Len(targets) |-> get_weights(targets_[b], EOS_ID, TRUE)])
    IN  sequence_loss(outputs, targets_, target_weights)

\* encoder_decoder computes the cross-entropy loss of run i
XentLoss(i) ==
    /\ xl_runs # None
    /\ xl_losses[i] = None
    /\ xl_losses' = [xl_losses EXCEPT ![i] = Some(xent_loss(xl_runs[i].outputs, xl_runs[i].targets))]
    /\ UNCHANGED xl_runs

\* target rows: BOS, then three tokens
TargetRows ==
    {<<BOS_ID, EOS_ID, KEEP_ID, DEL_ID>>, <<BOS_ID, KEEP_ID, EOS_ID, DEL_ID>>,
     <<BOS_ID, KEEP_ID, DEL_ID, EOS_ID>>, <<BOS_ID, KEEP_ID, DEL_ID, KEEP_ID>>,
     <<BOS_ID, EOS_ID, EOS_ID, KEEP_ID>>}

\* logits of row b at step t, in variant v
Logits(b, t, v) == Tensor([k \in 1..VocabSize |-> (k * (b + t) + 2 * v) % 3])

OtherToken(id) == IF id = EOS_ID THEN DEL_ID ELSE IF id = KEEP_ID THEN EOS_ID ELSE KEEP_ID

\* a run that differs from the run of the given targets at the positions
\* from[b] and later of every row b, in its tokens, in its logits or in both
OtherRun(targets, from, what) ==
    [outputs |-> Tensor([b \in 1..Len(targets) |-> Tensor([t \in 1..(Len(targets[b]) - 1) |->
                    Logits(b, t, IF t >= from[b] /\ what # "tokens" THEN 1 ELSE 0)])]),
     targets |-> Tensor([b \in 1..Len(targets) |-> Tensor([t \in 1..Len(targets[b]) |->
                    IF t - 1 >= from[b] /\ what # "logits" THEN OtherToken(targets[b][t])
                    ELSE targets[b][t]])])]

LossInit ==
    /\ \E batch_size \in 1..MaxBatch :
       \E targets \in [1..batch_size -> TargetRows], from \in [1..batch_size -> 1..4] :
       \E what \in {"tokens", "logits", "both"} :
          xl_runs = <<OtherRun(Tensor(targets), [b \in 1..batch_size |-> 4], "both"),
                      OtherRun(Tensor(targets), from, what)>>
    /\ xl_losses = <<None, None>>

LossIdle ==
    /\ xl_runs = None
    /\ xl_losses = <<None, None>>

-----------------------------------------------------------------------------
(* Idle values of the parts a specification does not run *)

GwIdle ==
    /\ gw_sequence = << >>
    /\ gw_include = FALSE
    /\ gw_weights = << >>
    /\ gw_done = TRUE

AttIdle ==
    /\ att_encoder = None
    /\ att_hidden = << >>
    /\ att_length = 0
    /\ att_pos = None
    /\ att_scores = NoScores
    /\ att_out = None
    /\ att_done = TRUE

\* the parts added to the decoder's
ext_vars == <<build_vars, store_vars, chain_vars, loss_vars>>
ExtIdle == BuildIdle /\ StoreIdle /\ ChainIdle /\ LossIdle

vars == <<gw_vars, att_vars, cfg_vars, loop_vars, beam_vars, ext_vars>>

WeightsInit == GwInit /\ AttIdle /\ DecIdle /\ ExtIdle
WeightsNext == CallGetWeights /\ UNCHANGED <<att_vars, cfg_vars, loop_vars, beam_vars, ext_vars>>
SpecWeights == WeightsInit /\ [][WeightsNext]_vars

AttnInit == AttInit /\ GwIdle /\ DecIdle /\ ExtIdle
AttnNext == CallAttention /\ UNCHANGED <<gw_vars, cfg_vars, loop_vars, beam_vars, ext_vars>>
SpecAttn == AttnInit /\ [][AttnNext]_vars

-----------------------------------------------------------------------------
(* Specifications of the decoder *)

Flags == BOOLEAN \X BOOLEAN \X BOOLEAN \X BOOLEAN

\* rows of n ids, BOS followed by the same id
ConstantInputs(id) == {Tensor([i \in 1..n |-> IF i = 1 THEN BOS_ID ELSE id]) : n \in 1..MaxSteps}

\* ground-truth rows: BOS, then edit operations or words
TargetIds == {UNK_ID, KEEP_ID, DEL_ID}
DecoderInputs == UNION {ConstantInputs(id) : id \in TargetIds}

EncoderConfigs ==
    {Encoder(t, 0) : t \in AttentionTypes} \cup {Encoder("local", 1)}

\* <<time dimension, valid length>> of an encoder's hidden states
EncoderLengths == {<<MaxEncLen, l>> : l \in 1..MaxEncLen}

\* <<conditional_rnn, update_first, generate_first>>
UpdateOrders == {<<FALSE, FALSE, FALSE>>, <<FALSE, FALSE, TRUE>>, <<FALSE, TRUE, FALSE>>, <<TRUE, FALSE, FALSE>>}

\* runs that feed the argmax back
GreedyInit ==
    \E o \in UpdateOrders, pred_edits \in BOOLEAN, enc \in EncoderConfigs, inputs \in DecoderInputs :
    \E ml \in EncoderLengths, fp \in {0, 1, 2} :
        DecInit(Decoder(o[1], o[2], o[3], pred_edits, FALSE, FALSE), <<enc>>, <<ml[1]>>, <<ml[2]>>, 0,
                inputs, fp, TRUE)

\* runs that feed a sample of the softmax back
SampleInit ==
    \E pred_edits \in BOOLEAN, inputs \in ConstantInputs(DEL_ID), ml \in EncoderLengths, fp \in {0, 1, 2} :
        DecInit(Decoder(FALSE, FALSE, FALSE, pred_edits, FALSE, FALSE), <<Encoder("local", 0)>>,
                <<ml[1]>>, <<ml[2]>>, 0, inputs, fp, FALSE)

LoopInit == (GreedyInit \/ SampleInit) /\ GwIdle /\ AttIdle /\ ExtIdle

LoopNext == (TimeStep \/ LoopExit) /\ UNCHANGED <<gw_vars, att_vars, ext_vars>>
SpecLoop == LoopInit /\ [][LoopNext]_vars

\* two encoders with different time dimensions
EncoderPairs ==
    {<<Encoder("global", 0), Encoder("last_state", 0)>>, <<Encoder("local", 1), Encoder("average", 0)>>}

\* greedy decoding (feed_previous = 1, feed_argmax), followed by the caller's
\* calls of get_logits
GreedyStepInit ==
    \E f \in Flags, use_lstm \in BOOLEAN, inputs \in ConstantInputs(UNK_ID) :
    \E skip_update \in {FALSE, f[4]} :
        \/ \E enc \in EncoderConfigs, ml \in EncoderLengths :
              DecInit(Decoder(f[1], f[2], f[3], f[4], skip_update, use_lstm), <<enc>>, <<ml[1]>>, <<ml[2]>>, 0,
                      inputs, 2, TRUE)
        \/ \E encs \in EncoderPairs, align \in {0, 1}, m \in {1, MaxEncLen + 1} :
              DecInit(Decoder(f[1], f[2], f[3], f[4], skip_update, use_lstm), encs,
                      <<MaxEncLen, m>>, <<MaxEncLen, 1>>, align, inputs, 2, TRUE)

StepInit == GreedyStepInit /\ GwIdle /\ AttIdle /\ ExtIdle

StepNext == (TimeStep \/ LoopExit \/ GetLogits) /\ UNCHANGED <<gw_vars, att_vars, ext_vars>>
SpecStep == StepInit /\ [][StepNext]_vars

-----------------------------------------------------------------------------
(* Specification of graph construction: multi_encoder, then attention_decoder *)

BuildSpecInit == BuildInit /\ GwIdle /\ AttIdle /\ DecIdle /\ StoreIdle /\ ChainIdle /\ LossIdle
BuildNext == (CallMultiEncoder \/ CallAttentionDecoder)
             /\ UNCHANGED <<gw_vars, att_vars, cfg_vars, loop_vars, beam_vars, store_vars, chain_vars, loss_vars>>
SpecBuild == BuildSpecInit /\ [][BuildNext]_vars

-----------------------------------------------------------------------------
(* Specification of parameter creation *)

StoreSpecInit == StoreInit /\ GwIdle /\ AttIdle /\ DecIdle /\ BuildIdle /\ ChainIdle /\ LossIdle
StoreNext == (CallGetVariable \/ CallDense \/ CallBuilder)
             /\ UNCHANGED <<gw_vars, att_vars, cfg_vars, loop_vars, beam_vars, build_vars, chain_vars, loss_vars>>
SpecStore == StoreSpecInit /\ [][StoreNext]_vars

-----------------------------------------------------------------------------
(* Specification of chained_encoder_decoder *)

ChainSpecInit == ChainInit /\ GwIdle /\ AttIdle /\ DecIdle /\ BuildIdle /\ StoreIdle /\ LossIdle
ChainNext == (ChainStart \/ ChainLoop \/ ChainCombine \/ ChainReturn)
             /\ UNCHANGED <<gw_vars, att_vars, build_vars, store_vars, loss_vars>>
SpecChain == ChainSpecInit /\ [][ChainNext]_vars

-----------------------------------------------------------------------------
(* Specification of the cross-entropy loss of encoder_decoder *)

LossSpecInit == LossInit /\ GwIdle /\ AttIdle /\ DecIdle /\ BuildIdle /\ StoreIdle /\ ChainIdle
LossNext == (\E i \in {1, 2} : XentLoss(i))
            /\ UNCHANGED <<gw_vars, att_vars, cfg_vars, loop_vars, beam_vars, build_vars, store_vars, chain_vars>>
SpecLoss == LossSpecInit /\ [][LossNext]_vars

-----------------------------------------------------------------------------
(* Properties of a weight row *)

RECURSIVE Product(_)
Product(s) == IF Len(s) = 0 THEN 1 ELSE s[1] * Product(Tail(s))

\* every weight of the row is a finite number
Finite(w) == \A i \in 1..Len(w) : w[i][2] > 0

\* the weights at the 0-based positions below `length` add up to 1
SumsToOne(w, length) ==
    LET P == Product([i \in 1..Len(w) |-> w[i][2]])
    IN  /\ Finite(w)
        /\ reduce_sum([i \in 1..Len(w) |-> IF i <= length THEN w[i][1] * (P \div w[i][2]) ELSE 0]) = P

\* the weights at the 0-based positions at or beyond `length` are 0
ZeroBeyond(w, length) ==
    \A i \in 1..Len(w) : i > length => (w[i][2] > 0 /\ w[i][1] = 0)

IsDistribution(w, length) == SumsToOne(w, length) /\ ZeroBeyond(w, length)

-----------------------------------------------------------------------------
(* C7, C8: get_weights *)

\* 0-based index of the first end-of-sequence id of the row, Len(row) when there is none
FirstEos(row) ==
    IF \E t \in 1..Len(row) : row[t] = EOS_ID
    THEN (CHOOSE t \in 1..Len(row) : row[t] = EOS_ID /\ \A u \in 1..(t - 1) : row[u] # EOS_ID) - 1
    ELSE Len(row)

\* position t (0-based) is 1 iff no end-of-sequence id occurs at or before t
MaskUpTo(row) == [t \in 1..Len(row) |-> IF t - 1 < FirstEos(row) THEN 1 ELSE 0]

\* C7: with include_first_eos (the default) a row whose first end-of-sequence id
\* is its L-th token gets L ones followed by T-L zeros, whatever follows; a row
\* without end-of-sequence id gets T ones.
C7_OnesThenZeros ==
    (gw_done /\ gw_include /\ Len(gw_sequence) > 0) =>
        LET T == Len(gw_sequence)
            L == Minimum(FirstEos(gw_sequence) + 1, T)
        IN  gw_weights = [t \in 1..T |-> IF t <= L THEN 1 ELSE 0]

\* C7 witness: an end-of-sequence id in the middle of the row, followed by another token
C7_Witness ==
    /\ gw_done /\ gw_include
    /\ Len(gw_sequence) = 3
    /\ gw_sequence[2] = EOS_ID /\ gw_sequence[1] # EOS_ID /\ gw_sequence[3] # EOS_ID
    /\ gw_weights = <<1, 1, 0>>

\* C8 as stated: without include_first_eos the mask is 1 iff no end-of-sequence
\* id occurs at or before the position, and with include_first_eos it is that
\* same mask with only position 0 forced to 1.
C8_Original ==
    (gw_done /\ Len(gw_sequence) > 0) =>
        IF gw_include
        THEN gw_weights = [MaskUpTo(gw_sequence) EXCEPT ![1] = 1]
        ELSE gw_weights = MaskUpTo(gw_sequence)

\* C8 amended: without include_first_eos the mask is 1 iff no end-of-sequence
\* id occurs at or before the position; with include_first_eos position 0 is 1
\* and position t >= 1 holds the value that mask has at position t-1 (1 iff no
\* end-of-sequence id occurs strictly before t).
C8_ShiftedMask ==
    (gw_done /\ Len(gw_sequence) > 0) =>
        IF gw_include
        THEN /\ Len(gw_weights) = Len(gw_sequence)
             /\ gw_weights[1] = 1
             /\ \A t \in 2..Len(gw_sequence) : gw_weights[t] = MaskUpTo(gw_sequence)[t - 1]
        ELSE gw_weights = MaskUpTo(gw_sequence)

\* C8 witness: the two masks differ at position 1 (the first end-of-sequence id)
C8_Witness ==
    /\ gw_done /\ gw_include
    /\ Len(gw_sequence) >= 2
    /\ gw_sequence[1] # EOS_ID /\ gw_sequence[2] = EOS_ID
    /\ gw_weights[2] = 1
    /\ MaskUpTo(gw_sequence)[2] = 0

-----------------------------------------------------------------------------
(* C10: global attention *)

\* C10: a global-attention weight row sums to 1 over the positions below the
\* valid length L (1 <= L <= T) and is 0 at the positions from L on, also when
\* the largest energy of the row lies at a padded position.
C10_GlobalDistribution ==
    (att_done /\ att_encoder.attention_type = "global" /\ att_length >= 1) =>
        IsDistribution(att_out.weights, att_length)

-----------------------------------------------------------------------------
(* C1..C6, C9: the attention decoder *)

TimeSteps == Len(decoder_inputs)

\* valid length of the aligned encoder
AlignedLength == cfg_encoder_input_length[cfg_align_encoder_id + 1]

\* what step t (0-based) recorded
SampleAt(t) == ta_samples.vals[t + 1][1]
OutputAt(t) == ta_outputs.vals[t + 1][1]
StateAt(t) == ta_states.vals[t + 1][1]
WeightsAt(t) == ta_weights.vals[t + 1][1]
ContextAt(t) == ta_attns.vals[t + 1][1]

\* the position step t (0-based) started from
PosBefore(t) == IF t = 0 THEN 0 ELSE carried[t].pos

\* the symbol step t (0-based) was fed
SymbolBefore(t) == IF t = 0 THEN decoder_inputs[1] ELSE SampleAt(t - 1)

Stepped == pc \in {"loop", "done"} /\ loop_time >= 1

\* C1: the symbol chosen at step t, which is the input of step t+1, is the
\* ground-truth token decoder_inputs[t+1] iff t < T-1 and the draw u satisfies
\* u >= feed_previous; otherwise it is a sample of the softmax when feed_argmax
\* is false and the argmax of the step's logits when it is true.  So
\* feed_previous = 0 teacher-forces every step but the last, feed_previous = 1
\* (2 in units of 1/2) never does, and index T of the ground truth is never read.
C1_TeacherForcing ==
    /\ pc # "failed"
    /\ \A i \in inputs_read : i < TimeSteps
    /\ Stepped =>
        LET t == loop_time - 1
            forced == t < TimeSteps - 1 /\ draw >= feed_previous
        IN  /\ (branch = "target") <=> forced
            /\ forced => SampleAt(t) = decoder_inputs[t + 2]
            /\ (~forced /\ feed_argmax) => (branch = "argmax" /\ SampleAt(t) = argmax(OutputAt(t)))
            /\ (~forced /\ ~feed_argmax) => (branch = "softmax" /\ SampleAt(t) \in Vocab)
            /\ loop_input_symbol = SampleAt(t)
            /\ loop_input = embed(SampleAt(t))
            /\ (feed_previous = 0 /\ t < TimeSteps - 1) => branch = "target"
            /\ feed_previous = 2 => branch # "target"

\* C1 witness: a step that is not the last was teacher-forced at feed_previous
\* = 1/2 with a ground-truth token the logits' argmax differs from
C1_Witness ==
    /\ Stepped
    /\ feed_previous = 1 /\ draw = 1
    /\ branch = "target"
    /\ loop_input_symbol = decoder_inputs[loop_time + 1]
    /\ loop_input_symbol # argmax(OutputAt(loop_time - 1))

\* C2: the loop ends after exactly T iterations, T the time length of
\* decoder_inputs, whatever symbols are chosen; each of the five per-step
\* records is written once at the indices the loop has passed, so once at every
\* index 0..T-1 on exit, and at no other index.
C2_ExactlyTimeSteps ==
    LET records == <<ta_outputs, ta_samples, ta_states, ta_weights, ta_attns>>
    IN  /\ pc \in {"loop", "done"}
        /\ loop_time <= TimeSteps
        /\ pc = "done" => loop_time = TimeSteps
        /\ \A k \in 1..5 :
            /\ records[k].stray = 0
            /\ \A i \in 1..TimeSteps : records[k].writes[i] = (IF i <= loop_time THEN 1 ELSE 0)
            /\ \A i \in 1..TimeSteps : (records[k].vals[i] # None) <=> (i <= loop_time)

\* C2 witness: the loop has exited after the longest run although its first
\* step chose the end-of-sequence symbol
C2_Witness ==
    /\ pc = "done"
    /\ TimeSteps = MaxSteps
    /\ loop_time = MaxSteps
    /\ SampleAt(0) = EOS_ID

\* C3 as stated: with pred_edits every step adds 1 to the alignment position
\* unless the chosen symbol is DEL_ID, which leaves it unchanged; the result is
\* clamped to the valid length of the aligned encoder.
C3_Original ==
    (Stepped /\ cfg_decoder.pred_edits) =>
        \A t \in 0..(loop_time - 1) :
            carried[t + 1].pos =
                Minimum(PosBefore(t) + (IF SampleAt(t) = DEL_ID THEN 0 ELSE 1), AlignedLength)

\* C3 amended: with pred_edits every step adds 1 to the alignment position iff
\* the chosen symbol is KEEP_ID or DEL_ID (any other symbol, an inserted word,
\* leaves it unchanged); the result is clamped to the valid length of the
\* aligned encoder.  Without pred_edits the position stays 0.
C3_EditPosition ==
    Stepped =>
        \A t \in 0..(loop_time - 1) :
            /\ cfg_decoder.pred_edits =>
                carried[t + 1].pos =
                    Minimum(PosBefore(t) + (IF SampleAt(t) \in {KEEP_ID, DEL_ID} THEN 1 ELSE 0), AlignedLength)
            /\ ~cfg_decoder.pred_edits => carried[t + 1].pos = 0

\* C3 witness: a step that chose DEL_ID moved the position forward, below the clamp
C3_Witness ==
    /\ Stepped /\ cfg_decoder.pred_edits
    /\ loop_input_symbol = DEL_ID
    /\ loop_pos = PosBefore(loop_time - 1) + 1
    /\ loop_pos <= AlignedLength

\* the three flags under which the deferred update runs (models.py 702, 749)
Deferred(dec) == dec.generate_first /\ ~dec.conditional_rnn /\ ~dec.update_first

Last(s) == s[Len(s)]

\* C4 as stated: with generate_first every step of the loop and every call of
\* get_logits updates the recurrent state after the symbol was chosen, for every
\* combination of conditional_rnn and update_first.
C4_Original ==
    cfg_decoder.generate_first =>
        /\ Stepped => Last(ops) = "update_symbol"
        /\ beam_calls >= 1 => Last(beam_ops) = "update_symbol"

\* C4 amended: a step of the loop and a call of get_logits update the recurrent
\* state after the symbol was chosen iff generate_first is set and neither
\* conditional_rnn nor update_first is; that update is fed the chosen symbol's
\* embedding, the step's context and the chosen symbol.  In every other case the
\* state handed on is the state the logits were generated from.
C4_DeferredUpdate ==
    /\ Stepped =>
        LET t == loop_time - 1
        IN  /\ (Last(ops) = "update_symbol") <=> Deferred(cfg_decoder)
            /\ Deferred(cfg_decoder) =>
                loop_state = update(cfg_decoder, StateAt(t), embed(SampleAt(t)),
                                    Some(ContextAt(t)), Some(SampleAt(t)))
            /\ ~Deferred(cfg_decoder) => loop_state = StateAt(t)
    /\ beam_calls >= 1 =>
        (Last(beam_ops) = "update_symbol") <=> Deferred(cfg_decoder)

\* C4 witness: the deferred update ran, in the loop and in get_logits, with a
\* chosen symbol other than the one the step was fed
C4_Witness ==
    /\ Stepped /\ Deferred(cfg_decoder)
    /\ beam_calls >= 1
    /\ Last(ops) = "update_symbol" /\ Last(beam_ops) = "update_symbol"
    /\ SampleAt(loop_time - 1) # SymbolBefore(loop_time - 1)
    /\ loop_state # StateAt(loop_time - 1)

\* C5: from the initial packed state and the first decoder input, k calls of
\* get_logits, each fed the argmax of the previous call's logits, give at every
\* call i <= k the logits, the recurrent state and alignment position handed
\* on, and the attention weights of step i of the loop run with feed_previous =
\* 1 and feed_argmax, for every combination of conditional_rnn, update_first,
\* generate_first and pred_edits.
C5_GetLogitsRefinesLoop ==
    (pc = "done" /\ feed_previous = 2 /\ feed_argmax /\ beam_greedy /\ beam_calls >= 1) =>
        LET i == beam_calls
        IN  /\ beam_logits = OutputAt(i - 1)
            /\ argmax(beam_logits) = SampleAt(i - 1)
            /\ beam_parts.state = carried[i].state
            /\ beam_parts.pos = carried[i].pos
            /\ beam_parts.prev_weights = WeightsAt(i - 1)
            /\ beam_data = Pack(carried[i].state, carried[i].pos, WeightsAt(i - 1))

\* C5 witness: as many greedy calls as the longest loop has steps, in edit mode
\* with the deferred update, the position having moved
C5_Witness ==
    /\ pc = "done" /\ beam_greedy
    /\ beam_calls = MaxSteps
    /\ Deferred(cfg_decoder) /\ cfg_decoder.pred_edits
    /\ beam_parts.pos >= 1
    /\ beam_parts.state = loop_state

\* C6: the initial packed state is the projected recurrent state (width
\* state_size), then the position 0, then zeros as wide as the time dimension
\* of the hidden states of encoder align_encoder_id; every call of get_logits
\* returns a packed state of that width whose split into (state_size, 1, rest)
\* is the state, the position and the weights the call packed.
C6_PackedLayout ==
    LET n == StateSize(cfg_decoder)
        attn_length == Len(cfg_attention_states[cfg_align_encoder_id + 1])
        init == Split(initial_data, n)
    IN  /\ Len(initial_data) = n + 1 + attn_length
        /\ init.state = InitialState(cfg_decoder, EncoderState(cfg_attention_states))
        /\ Len(init.state) = n
        /\ init.pos = 0
        /\ init.prev_weights = [i \in 1..attn_length |-> <<0, 1>>]
        /\ Len(beam_data) = Len(initial_data)
        /\ Split(beam_data, n) = beam_parts
        /\ Len(beam_parts.state) = n
        /\ Len(beam_parts.prev_weights) = attn_length

\* C6 witness: a call returned, the aligned encoder being the second of two
\* encoders with different time dimensions and the cell an LSTM
C6_Witness ==
    /\ beam_calls >= 2
    /\ cfg_decoder.use_lstm
    /\ Len(cfg_encoders) = 2 /\ cfg_align_encoder_id = 1
    /\ Len(cfg_attention_states[1]) # Len(cfg_attention_states[2])
    /\ beam_parts.state # Split(initial_data, StateSize(cfg_decoder)).state

AlignedEncoder == cfg_encoders[cfg_align_encoder_id + 1]

\* C9 as stated: for every attention type and every decoding step the weights
\* recorded for the aligned encoder sum to 1 over the positions below the valid
\* length and are 0 at the positions from the valid length on.
C9_Original ==
    Stepped => \A t \in 0..(loop_time - 1) : IsDistribution(WeightsAt(t), AlignedLength)

\* C9 amended: for the attention types average and last_state, and for local
\* attention in position-supervised mode (pred_edits), the weights recorded at
\* every decoding step sum to 1 over the positions below the valid length and
\* are 0 from the valid length on; attention type none records all zeros.
C9_DistributionTypes ==
    Stepped =>
        \A t \in 0..(loop_time - 1) :
            /\ (\/ AlignedEncoder.attention_type \in {"average", "last_state"}
                \/ AlignedEncoder.attention_type = "local" /\ cfg_decoder.pred_edits)
                    => IsDistribution(WeightsAt(t), AlignedLength)
            /\ AlignedEncoder.attention_type = "none"
                    => WeightsAt(t) = [i \in 1..Len(WeightsAt(t)) |-> <<0, 1>>]

\* C9 witness: position-supervised local attention whose position has reached
\* the valid length, short of the time dimension, and whose next step recorded
\* all weight on the last valid position
C9_Witness ==
    /\ Stepped /\ loop_time >= 2
    /\ AlignedEncoder.attention_type = "local" /\ cfg_decoder.pred_edits
    /\ AlignedLength < Len(WeightsAt(1))
    /\ PosBefore(1) = AlignedLength
    /\ WeightsAt(1)[AlignedLength] = <<1, 1>>

-----------------------------------------------------------------------------
(* C11, C12, C13: the attention variants with fixed weights *)

\* the float x = <<numerator, denominator>> is finite and equals n / d
EqualsRatio(x, n, d) == x[2] > 0 /\ d > 0 /\ x[1] * d = n * x[2]

\* C11: average attention with 1 <= L <= T gives weight 1/L to every position
\* below L and weight 0 to every position at or beyond L, whatever the hidden
\* states are (the query is no input of the computation).
C11_AverageWeights ==
    (att_done /\ att_encoder.attention_type = "average" /\ att_length >= 1) =>
        /\ Len(att_out.weights) = Len(att_hidden)
        /\ \A i \in 1..Len(att_hidden) :
              IF i - 1 < att_length
              THEN EqualsRatio(att_out.weights[i], 1, att_length)
              ELSE EqualsRatio(att_out.weights[i], 0, 1)

\* C11 witness: valid length 2 of 3 positions, hidden states other than the
\* default ones, weights 1/2, 1/2, 0
C11_Witness ==
    /\ att_done /\ att_encoder.attention_type = "average"
    /\ att_length = 2 /\ Len(att_hidden) = 3
    /\ att_hidden # HiddenStates(3, 2)
    /\ att_out.weights = << <<1, 2>>, <<1, 2>>, <<0, 2>> >>

\* C12: last_state attention with 1 <= L <= T gives weight 1 to index L-1 and
\* weight 0 to every other index, and the context is the hidden state at
\* index L-1.
C12_LastStateOneHot ==
    (att_done /\ att_encoder.attention_type = "last_state" /\ att_length >= 1) =>
        /\ Len(att_out.weights) = Len(att_hidden)
        /\ \A i \in 1..Len(att_hidden) :
              EqualsRatio(att_out.weights[i], IF i - 1 = att_length - 1 THEN 1 ELSE 0, 1)
        /\ Len(att_out.weighted_average) = 1
        /\ EqualsRatio(att_out.weighted_average[1], att_hidden[att_length], 1)

\* C12 witness: valid length 2 of 3 positions, all weight on index 1 and the
\* context is the (nonzero) hidden state there
C12_Witness ==
    /\ att_done /\ att_encoder.attention_type = "last_state"
    /\ att_length = 2 /\ Len(att_hidden) = 3
    /\ att_out.weights[2] = <<1, 1>>
    /\ att_out.weighted_average = << <<-4, 1>> >>

\* C13: local attention with a supplied position pos >= 0 (valid length
\* L >= 1) returns weights that are one-hot at index min(pos, L-1), for window
\* radius 0 and for a positive radius alike; with a positive radius every
\* window position used to build the context lies in 0..L-1.
C13_SuppliedPosition ==
    (att_done /\ att_encoder.attention_type = "local" /\ att_pos # None /\ att_length >= 1) =>
        /\ Len(att_out.weights) = Len(att_hidden)
        /\ \A i \in 1..Len(att_hidden) :
              EqualsRatio(att_out.weights[i],
                          IF i - 1 = Minimum(att_pos[1], att_length - 1) THEN 1 ELSE 0, 1)
        /\ att_encoder.attn_window_size > 0 =>
              /\ Len(att_out.window_pos) = 2 * att_encoder.attn_window_size + 1
              /\ \A k \in 1..Len(att_out.window_pos) :
                    att_out.window_pos[k] \in 0..(att_length - 1)

\* C13 witness: pos = L-1 with L below the time length and a window of radius
\* 1: all weight on index L-1, and the window position pos+1 was clamped to L-1
C13_Witness ==
    /\ att_done /\ att_encoder.attention_type = "local" /\ att_encoder.attn_window_size = 1
    /\ att_length = 2 /\ Len(att_hidden) = 3
    /\ att_pos = Some(1)
    /\ att_out.weights = << <<0, 1>>, <<1, 1>>, <<0, 1>> >>
    /\ att_out.window_pos = <<0, 1, 1>>

-----------------------------------------------------------------------------
(* C14: configuration errors at graph construction *)

\* the unsupported encoder configurations the claim lists
ListedUnsupported(encoder) ==
    \/ ~encoder.bidir /\ encoder.time_pooling # << >>
    \/ encoder.binary /\ (encoder.convolutions # << >> \/ encoder.maxout_stride # 0)

MultiEncoderCalled == me_status \in {"returned", NotImplementedError}
AttentionDecoderCalled == ad_status \in {"constructing", AssertionError}

\* C14 as stated: multi_encoder raises NotImplementedError (and returns
\* nothing) for a unidirectional encoder with time_pooling and for a binary
\* encoder with convolutions or maxout_stride, attention_decoder fails its
\* assertion for pred_maxout_layer with an odd cell_size, and no other
\* configuration raises either error.
C14_Original ==
    /\ MultiEncoderCalled =>
          /\ me_status = NotImplementedError <=> \E i \in 1..Len(me_encoders) : ListedUnsupported(me_encoders[i])
          /\ me_status = NotImplementedError => me_result = None
          /\ me_status = "returned" => me_result # None
    /\ AttentionDecoderCalled =>
          (ad_status = AssertionError <=> (ad_decoder.pred_maxout_layer /\ ad_decoder.cell_size % 2 = 1))

\* C14 amended: multi_encoder raises NotImplementedError (and returns nothing)
\* for a unidirectional encoder with time_pooling or with final_state
\* 'concat_last', and for a binary encoder with convolutions or maxout_stride;
\* attention_decoder fails its assertion for pred_maxout_layer with an odd
\* cell_size; no other configuration raises either error.
C14_ConfigurationErrors ==
    /\ MultiEncoderCalled =>
          /\ me_status = NotImplementedError <=>
                \E i \in 1..Len(me_encoders) :
                    \/ ListedUnsupported(me_encoders[i])
                    \/ ~me_encoders[i].bidir /\ me_encoders[i].final_state = "concat_last"
          /\ me_status = NotImplementedError => me_result = None
          /\ me_status = "returned" => me_result # None
    /\ AttentionDecoderCalled =>
          (ad_status = AssertionError <=> (ad_decoder.pred_maxout_layer /\ ad_decoder.cell_size % 2 = 1))

\* C14 witness: a token-valued unidirectional encoder without time pooling,
\* convolutions or max-pooling, with final_state 'concat_last', has raised
C14_Witness ==
    /\ me_status = NotImplementedError /\ me_result = None
    /\ ~me_encoders[1].bidir /\ ~me_encoders[1].binary
    /\ me_encoders[1].time_pooling = << >> /\ me_encoders[1].final_state = "concat_last"

-----------------------------------------------------------------------------
(* C17, C18: the summary state of an encoder *)

\* C17: with final_state 'average' the summary state of an encoder is the
\* average, over the positions below its valid length after pooling, of the
\* per-position outputs (hidden states) the encoder returns.
C17_AverageOfHiddenStates ==
    (me_status = "returned" /\ me_encoders[1].final_state = "average") =>
        LET r == me_result[1]
            hidden == r.encoder_outputs[1]
            L == r.new_encoder_input_length[1]
        IN  /\ Len(r.encoder_state) = Len(hidden[1])
            /\ \A k \in 1..Len(r.encoder_state) :
                  EqualsRatio(r.encoder_state[k],
                              reduce_sum([t \in 1..Len(hidden) |-> IF t <= L THEN hidden[t][k] ELSE 0]), L)

\* C18: the summary state of a unidirectional encoder with the default
\* final-state policy is the encoder output at position valid_length-1, also
\* for an entry whose valid length is below the time length.
C18_LastForwardState ==
    (me_status = "returned" /\ ~me_encoders[1].bidir /\ me_encoders[1].final_state = "last") =>
        LET r == me_result[1]
            hidden == r.encoder_outputs[1]
            L == r.new_encoder_input_length[1]
        IN  /\ Len(r.encoder_state) = Len(hidden[L])
            /\ \A k \in 1..Len(r.encoder_state) : EqualsRatio(r.encoder_state[k], hidden[L][k], 1)

-----------------------------------------------------------------------------
(* C15, C16: parameter creation *)

\* the variable names a call through a wrapper asks for
Needed(call) ==
    IF call.kind = "get_variable" THEN {call.name}
    ELSE {call.name \o <<"kernel">>} \cup (IF call.use_bias THEN {call.name \o <<"bias">>} ELSE {})

WrapperCalled == vs_call # None /\ vs_call[1].kind \in {"get_variable", "dense"}

\* C15: the store never holds two variables of one (scope, name); a call of
\* get_variable or dense whose names are all bound with the shape asked for
\* returns the variables created first and creates nothing; a call that asks
\* for a bound name with another shape raises; and no call changes a variable
\* that existed before it.
C15_Idempotent ==
    /\ \A i, j \in 1..Len(vs_store) : i # j => vs_store[i].name # vs_store[j].name
    /\ WrapperCalled =>
          LET call == vs_call[1]
              before == call.before
              compatible(n) == Lookup(before, n) # 0 /\ before[Lookup(before, n)].shape = call.shape
              conflicting(n) == Lookup(before, n) # 0 /\ before[Lookup(before, n)].shape # call.shape
          IN  /\ Len(vs_store) >= Len(before) /\ SubSeq(vs_store, 1, Len(before)) = before
              /\ (\A n \in Needed(call) : compatible(n)) =>
                    /\ call.raised = ""
                    /\ vs_store = before
                    /\ {call.variables[k] : k \in 1..Len(call.variables)}
                          = {Lookup(before, n) : n \in Needed(call)}
              /\ (\E n \in Needed(call) : conflicting(n)) => call.raised # ""

\* C15 witness: outside any reusing scope, get_variable was called for a name
\* bound by an earlier call, with the same shape, and returned that variable
C15_Witness ==
    /\ WrapperCalled
    /\ vs_call[1].kind = "get_variable" /\ ~vs_call[1].reuse
    /\ Lookup(vs_call[1].before, vs_call[1].name) = 1
    /\ vs_call[1].before[1].shape = vs_call[1].shape
    /\ vs_call[1].raised = "" /\ vs_call[1].variables = <<1>>
    /\ vs_store = vs_call[1].before

\* C16: a graph-building function that has already returned once in the same
\* scope returns again when called a second time, reusing the parameters it
\* created (no parameter-creation site fails because its variable exists),
\* also chained_encoder_decoder with a map_attns, map_states or map_outputs
\* strategy.
C16_RebuildSucceeds ==
    (vs_call # None /\ vs_call[1].kind = "build" /\ vs_call[1].builder \in vs_call[1].built_before) =>
        /\ vs_call[1].raised = ""
        /\ vs_store = vs_call[1].before

-----------------------------------------------------------------------------
(* C19, C20: chained_encoder_decoder *)

\* cross-entropy of one row of logits against a row of ids, counted at the
\* positions up to and including the first end-of-sequence id
MaskedCrossEntropy(logits, row) ==
    reduce_sum([t \in 1..Len(row) |->
        IF t - 1 <= FirstEos(row)
        THEN (CHOOSE m \in {logits[t][k] : k \in 1..Len(logits[t])} :
                  \A k \in 1..Len(logits[t]) : logits[t][k] <= m) + 1 - logits[t][row[t] + 1]
        ELSE 0])

ChainCalled == ch_pc \notin {"idle", "start"}

\* C19: chained_encoder_decoder accepts exactly two encoders (any other
\* number fails its assertion) and returns the loss triple [L, null, null],
\* where L is the cross-entropy of the final decoder against the targets plus
\* chaining_loss_ratio times the cross-entropy of the stage-1 decoder against
\* encoder_inputs[0]; with chaining_loss_ratio 0 L is the final
\* cross-entropy alone.  (The ratio is counted in halves, the batch has one row.)
C19_LossTriple ==
    ChainCalled =>
        /\ Len(ch_args.encoders) # 2 <=> (ch_pc = "failed" /\ ch_result.raised = AssertionError)
        /\ ch_pc = "returned" =>
              LET final == MaskedCrossEntropy(stack(ta_outputs), Tail(ch_args.targets))
                  chaining == MaskedCrossEntropy(ch_stage1[1].outputs, ch_args.encoder_inputs[1])
              IN  /\ Len(ch_result.losses) = 3
                  /\ ch_result.losses[2] = None /\ ch_result.losses[3] = None
                  /\ EqualsRatio(ch_result.losses[1], 2 * final + ch_args.chaining_loss_ratio * chaining, 2)
                  /\ ch_args.chaining_loss_ratio = 0 => EqualsRatio(ch_result.losses[1], final, 1)

\* C19 witness: a call with two encoders returned with a chaining ratio of
\* 1/2 and a chaining loss that is not zero
C19_Witness ==
    /\ ch_pc = "returned"
    /\ Len(ch_args.encoders) = 2
    /\ ch_args.chaining_loss_ratio = 1
    /\ ch_stage1[1].chaining_loss[1] > 0
    /\ ch_result.losses[1] # ch_stage1[1].chaining_loss

\* the combination of the stage-2 hidden states with the stage-1 contexts was
\* reached under chaining_strategy = 'sum_attns'
SumAttnsCombined ==
    /\ ch_pc \in {"stage2", "returned", "failed"}
    /\ ch_stage2 # None
    /\ ch_args.chaining_strategy = "sum_attns"

\* the stage-1 decoder read BOS followed by encoder_inputs[0] without its last
\* token and ran one step per time position of encoder_inputs[0], so its
\* contexts have the batch and time dimensions of the stage-2 hidden states
StepsAndDimensionsAgree ==
    /\ ch_stage1[1].decoder_inputs[1] = BOS_ID
    /\ Tail(ch_stage1[1].decoder_inputs)
          = SubSeq(ch_args.encoder_inputs[1], 1, Len(ch_args.encoder_inputs[1]) - 1)
    /\ ch_stage1[1].steps = Len(ch_args.encoder_inputs[1])
    /\ Len(ch_stage1[1].attns) = Len(ch_args.encoder_inputs[1])
    /\ ch_stage2[1].added[1] = ch_stage2[1].before[1]
    /\ ch_stage2[1].added[2] = ch_stage2[1].before[2]

-----------------------------------------------------------------------------
(* C21: the cross-entropy loss of encoder_decoder *)

\* the two runs agree on logits and target tokens at every position up to and
\* including the first end-of-sequence id of each target row
AgreeUpToEos ==
    \A b \in 1..Len(xl_runs[1].targets) :
        LET row == Tail(xl_runs[1].targets[b])
        IN  \A t \in 1..Len(row) :
                t - 1 <= FirstEos(row) =>
                    /\ Tail(xl_runs[2].targets[b])[t] = row[t]
                    /\ xl_runs[2].outputs[b][t] = xl_runs[1].outputs[b][t]

LossesComputed == xl_runs # None /\ xl_losses[1] # None /\ xl_losses[2] # None

\* sum over the rows of a run of the cross-entropy up to and including the
\* first end-of-sequence id
RunCrossEntropy(run) ==
    reduce_sum([b \in 1..Len(run.targets) |-> MaskedCrossEntropy(run.outputs[b], Tail(run.targets[b]))])

\* C21: the cross-entropy loss of encoder_decoder is the same for two runs
\* that agree on logits and target tokens up to and including the first
\* end-of-sequence token of each target row, whatever they are at later
\* positions; the first end-of-sequence position is counted, and the sum over
\* time and batch is divided by the batch size only.
C21_MaskedLoss ==
    LossesComputed =>
        /\ AgreeUpToEos => xl_losses[1] = xl_losses[2]
        /\ \A i \in {1, 2} :
              EqualsRatio(xl_losses[i][1], RunCrossEntropy(xl_runs[i]), Len(xl_runs[i].targets))

\* C21 witness: two runs of two rows differ in tokens and logits after the
\* first end-of-sequence token only, and their loss, not zero, is the same
C21_Witness ==
    /\ LossesComputed
    /\ Len(xl_runs[1].targets) = 2
    /\ AgreeUpToEos
    /\ xl_runs[1].targets # xl_runs[2].targets
    /\ xl_runs[1].outputs # xl_runs[2].outputs
    /\ xl_losses[1][1][1] > 0
    /\ xl_losses[1] = xl_losses[2]

-----------------------------------------------------------------------------
(* C22: rows of valid length 0 *)

\* a normalizing attention variant was called on a row whose valid length is 0:
\* global, average, or local attention with a learned position
ZeroLengthCall ==
    /\ att_done
    /\ att_encoder # None
    /\ att_length = 0
    /\ \/ att_encoder.attention_type \in {"global", "average"}
       \/ att_encoder.attention_type = "local" /\ att_pos = None

\* C22: for a row whose valid length is 0, global, average and
\* learned-position local attention never divide by zero: no attention
\* weight of the row is the quotient of a division by 0.
C22_NoDivisionByZero ==
    ZeroLengthCall =>
        \A i \in 1..Len(att_out.weights) : att_out.weights[i][2] # 0

-----------------------------------------------------------------------------
(* C23: the recurrent updates of one decoding step *)

UpdateOps == {"conditional_1", "conditional_2", "update_first", "update", "update_symbol"}

\* the recurrent updates of the last step, in order
UpdatesOf(o) == SelectSeq(o, LAMBDA x : x \in UpdateOps)

\* the recurrent state step t started from
StateBefore(t) == IF t = 0 THEN Split(initial_data, StateSize(cfg_decoder)).state ELSE carried[t].state

\* the state recorded for step t is the state step t's logits were generated from
RecordedStateGenerates(t) ==
    OutputAt(t) = generate(cfg_decoder, StateAt(t), embed(SymbolBefore(t)), ContextAt(t))

\* C23 as stated: with conditional_rnn off every step performs exactly one
\* recurrent update (before attention when update_first, after attention and
\* before generation by default, after the symbol choice when generate_first),
\* with conditional_rnn on exactly two, one before and one after attention; the
\* state recorded for step t is the state step t's logits were generated from.
C23_Original ==
    Stepped =>
        /\ ~cfg_decoder.conditional_rnn =>
              UpdatesOf(ops) = (IF cfg_decoder.update_first THEN <<"update_first">>
                                ELSE IF cfg_decoder.generate_first THEN <<"update_symbol">>
                                ELSE <<"update">>)
        /\ cfg_decoder.conditional_rnn => UpdatesOf(ops) = <<"conditional_1", "conditional_2">>
        /\ RecordedStateGenerates(loop_time - 1)

\* C23 amended: with conditional_rnn off a step performs one recurrent update
\* before attention iff update_first, one after attention and before
\* generation iff generate_first is off, and one after the symbol choice iff
\* generate_first is on and update_first is off: two updates with update_first
\* and without generate_first, one in every other case.  With conditional_rnn
\* on it performs exactly two, one before and one after attention.  The state
\* recorded for step t is the state step t's logits were generated from.
C23_UpdatePlacement ==
    Stepped =>
        LET t == loop_time - 1
            dec == cfg_decoder
            s0 == StateBefore(t)
            sym == SymbolBefore(t)
            ctx == ContextAt(t)
            first == update(dec, s0, embed(sym), None, Some(sym))
        IN  /\ ~dec.conditional_rnn =>
                  /\ ops = (IF dec.update_first THEN <<"update_first">> ELSE << >>) \o <<"look">>
                           \o (IF ~dec.generate_first THEN <<"update">> ELSE << >>) \o <<"generate", "symbol">>
                           \o (IF dec.generate_first /\ ~dec.update_first THEN <<"update_symbol">> ELSE << >>)
                  /\ Len(UpdatesOf(ops)) = (IF dec.update_first /\ ~dec.generate_first THEN 2 ELSE 1)
                  /\ StateAt(t) = (IF dec.update_first /\ ~dec.generate_first
                                   THEN update(dec, first, embed(sym), Some(ctx), Some(sym))
                                   ELSE IF dec.update_first THEN first
                                   ELSE IF ~dec.generate_first THEN update(dec, s0, embed(sym), Some(ctx), Some(sym))
                                   ELSE s0)
            /\ dec.conditional_rnn =>
                  /\ ops = <<"conditional_1", "look", "conditional_2", "generate", "symbol">>
                  /\ StateAt(t) = update(dec, update(dec, s0, embed(sym), None, None), ctx, None, None)
                  /\ loop_state = StateAt(t)
            /\ RecordedStateGenerates(t)

\* C23 witness: a step with update_first and without generate_first or
\* conditional_rnn updated the state before attention and again after it
C23_Witness ==
    /\ Stepped
    /\ ~cfg_decoder.conditional_rnn /\ cfg_decoder.update_first /\ ~cfg_decoder.generate_first
    /\ UpdatesOf(ops) = <<"update_first", "update">>
    /\ StateAt(loop_time - 1) # update(cfg_decoder, StateBefore(loop_time - 1),
                                       embed(SymbolBefore(loop_time - 1)), None,
                                       Some(SymbolBefore(loop_time - 1)))

-----------------------------------------------------------------------------
(* C24: the alignment position *)

\* the position argument look hands to the attention functions for a state and a position
PosArgument(state, input_, pos) ==
    look(cfg_decoder, cfg_encoders, cfg_attention_states, cfg_encoder_input_length,
         cfg_align_encoder_id, state, input_, pos).pos_arg

\* the position of the loop and the position of the packed state of get_logits
\* lie in 0..valid length of the aligned encoder; without pred_edits they are 0
\* and look passes no position to the attention functions
PositionInRange ==
    pc \in {"loop", "done"} =>
        /\ 0 <= loop_pos /\ loop_pos <= AlignedLength
        /\ Split(beam_data, StateSize(cfg_decoder)).pos = beam_parts.pos
        /\ 0 <= beam_parts.pos /\ beam_parts.pos <= AlignedLength
        /\ \A t \in 1..Len(carried) : 0 <= carried[t].pos /\ carried[t].pos <= AlignedLength
        /\ ~cfg_decoder.pred_edits =>
              /\ loop_pos = 0
              /\ beam_parts.pos = 0
              /\ PosArgument(loop_state, loop_input, loop_pos) = None
              /\ PosArgument(beam_parts.state, embed(GreedyId), beam_parts.pos) = None

\* a step of the loop and a call of get_logits do not decrease the position,
\* and leave it unchanged without pred_edits
PositionStep ==
    (pc \in {"loop", "done"} /\ pc' \in {"loop", "done"}) =>
        /\ loop_pos' >= loop_pos
        /\ beam_parts'.pos >= beam_parts.pos
        /\ ~cfg_decoder.pred_edits => (loop_pos' = loop_pos /\ beam_parts'.pos = beam_parts.pos)

\* C24: in every reachable state of the decoder loop and of any sequence of
\* calls of get_logits from the initial packed state, the alignment position
\* pos satisfies 0 <= pos <= valid length of the aligned encoder and never
\* decreases from one step to the next; without pred_edits pos is left unchanged
\* by every step, stays at its initial value 0, and no position is passed to
\* the attention function.
C24_PositionBounds == [](PositionInRange) /\ [][PositionStep]_vars

\* C24 witness: with pred_edits the position of the loop and the position of
\* the packed state both reached the valid length of the aligned encoder,
\* after more steps than that length
C24_Witness ==
    /\ pc = "done"
    /\ cfg_decoder.pred_edits
    /\ loop_pos = AlignedLength
    /\ loop_time > AlignedLength
    /\ beam_parts.pos = AlignedLength
    /\ beam_calls > AlignedLength

====
